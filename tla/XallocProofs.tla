---------------------------- MODULE XallocProofs ----------------------------
(***************************************************************************)
(* Xalloc's invariants and its refinement of TrackedHeap, for any set of   *)
(* addresses.                                                              *)
(***************************************************************************)
EXTENDS Xalloc, SequenceTheorems, TLAPS

\* The list being walked, or still to be walked, is what the wrappers
\* answer for: mem_list while the program runs, the rest of it (curr) once a
\* cleanup has begun.
Answered == IF phase = "running" THEN mem_list ELSE curr

(***************************************************************************)
(* ListIsHanded says nothing of the blocks a cleanup has still to free and *)
(* NoBadFree nothing of which blocks are live, so neither is inductive.    *)
(* The strengthening follows the list into the cleanup and adds that what  *)
(* is handed out is live, and that a process that is gone walks no list.   *)
(***************************************************************************)
IInv ==
    /\ TypeOK
    /\ NoBadFree
    /\ handed \subseteq heap
    /\ Elems(Answered) = handed
    /\ Distinct(Answered)
    /\ phase = "exited" => curr = <<>>

-----------------------------------------------------------------------------
\* What the list operations do to the set of addresses on the list.

\* A new head node adds its address and keeps the nodes distinct.
LEMMA ConsElems ==
    ASSUME NEW S, NEW s \in Seq(S), NEW p \in S
    PROVE  /\ <<p>> \o s \in Seq(S)
           /\ Elems(<<p>> \o s) = Elems(s) \cup {p}
           /\ p \notin Elems(s) /\ Distinct(s) => Distinct(<<p>> \o s)
<1> DEFINE t == <<p>> \o s
<1>1. /\ t \in Seq(S)
      /\ Len(t) = Len(s) + 1
      /\ t[1] = p
      /\ \A i \in 1..Len(s) : t[i + 1] = s[i]
      /\ Len(s) \in Nat
  OBVIOUS
<1>2. \A i \in 1..Len(t) : i = 1 \/ (i - 1 \in 1..Len(s) /\ t[i] = s[i - 1])
  BY <1>1
<1> HIDE DEF t
<1>3. Elems(t) = Elems(s) \cup {p}
  <2>1. ASSUME NEW x \in Elems(t) PROVE x \in Elems(s) \cup {p}
    BY <1>1, <1>2 DEF Elems
  <2>2. ASSUME NEW x \in Elems(s) PROVE x \in Elems(t)
    <3>1. PICK i \in 1..Len(s) : s[i] = x
      BY DEF Elems
    <3>2. i + 1 \in 1..Len(t) /\ t[i + 1] = x
      BY <1>1, <3>1
    <3>3. QED BY <3>2 DEF Elems
  <2>3. p \in Elems(t)
    BY <1>1 DEF Elems
  <2>4. QED BY <2>1, <2>2, <2>3
<1>4. ASSUME p \notin Elems(s), Distinct(s) PROVE Distinct(t)
  <2> SUFFICES ASSUME NEW k \in 1..Len(t), NEW l \in 1..Len(t), t[k] = t[l]
               PROVE  k = l
    BY DEF Distinct
  <2>1. \A j \in 1..Len(s) : s[j] # p
    BY <1>4 DEF Elems
  <2>2. k = 1 <=> l = 1
    BY <1>1, <1>2, <2>1
  <2>3. CASE k # 1 /\ l # 1
    <3>1. k - 1 \in 1..Len(s) /\ l - 1 \in 1..Len(s) /\ s[k - 1] = s[l - 1]
      BY <1>2, <2>3
    <3>2. k - 1 = l - 1
      BY <1>4, <3>1 DEF Distinct
    <3>3. QED BY <1>1, <3>2
  <2>4. QED BY <2>2, <2>3
<1>5. QED BY <1>1, <1>3, <1>4 DEF t

\* Unlinking a node of a list without duplicates takes its address, and no
\* other, off the list.
LEMMA UnlinkElems ==
    ASSUME NEW S, NEW s \in Seq(S), NEW i \in 1..Len(s), Distinct(s)
    PROVE  /\ Unlink(s, i) \in Seq(S)
           /\ Elems(Unlink(s, i)) = Elems(s) \ {s[i]}
           /\ Distinct(Unlink(s, i))
<1> DEFINE t == Unlink(s, i)
           At(k) == IF k < i THEN k ELSE k + 1
<1>1. Len(s) \in Nat
  OBVIOUS
<1>2. /\ t \in Seq(S)
      /\ Len(t) = Len(s) - 1
      /\ \A k \in 1..Len(t) : At(k) \in 1..Len(s) /\ t[k] = s[At(k)]
  <2> DEFINE a == SubSeq(s, 1, i - 1)
             b == SubSeq(s, i + 1, Len(s))
  <2>1. /\ a \in Seq(S)
        /\ Len(a) = i - 1
        /\ \A k \in 1..(i - 1) : a[k] = s[k]
    BY <1>1, SubSeqProperties
  <2>2. /\ b \in Seq(S)
        /\ Len(b) = Len(s) - i
        /\ \A k \in 1..(Len(s) - i) : b[k] = s[i + k]
    <3>1. i + 1 \in 1..(Len(s) + 1) /\ Len(s) \in i..Len(s)
      BY <1>1
    <3>2. QED BY <1>1, <3>1, SubSeqProperties
  <2> HIDE DEF a, b
  <2>3. /\ a \o b \in Seq(S)
        /\ Len(a \o b) = Len(a) + Len(b)
        /\ \A k \in 1..(Len(a) + Len(b)) :
             (a \o b)[k] = IF k <= Len(a) THEN a[k] ELSE b[k - Len(a)]
    BY <2>1, <2>2, ConcatProperties
  <2>4. t = a \o b
    BY DEF Unlink, a, b
  <2> HIDE DEF t
  <2>5. ASSUME NEW k \in 1..Len(t)
        PROVE  At(k) \in 1..Len(s) /\ t[k] = s[At(k)]
    <3>1. CASE k < i
      BY <1>1, <2>1, <2>2, <2>3, <2>4, <3>1
    <3>2. CASE ~(k < i)
      <4>1. k - (i - 1) \in 1..(Len(s) - i)
        BY <1>1, <2>1, <2>2, <2>3, <2>4, <3>2
      <4>2. t[k] = b[k - (i - 1)]
        BY <1>1, <2>1, <2>2, <2>3, <2>4, <3>2
      <4>3. b[k - (i - 1)] = s[i + (k - (i - 1))]
        BY <4>1, <2>2
      <4>4. QED BY <1>1, <4>1, <4>2, <4>3, <3>2
    <3>3. QED BY <3>1, <3>2
  <2>6. t \in Seq(S) /\ Len(t) = Len(s) - 1
    BY <1>1, <2>1, <2>2, <2>3, <2>4
  <2> HIDE DEF At
  <2>7. QED BY <2>5, <2>6
<1> HIDE DEF t
<1>3. \A j \in 1..Len(s) : j # i => \E k \in 1..Len(t) : At(k) = j
  <2> SUFFICES ASSUME NEW j \in 1..Len(s), j # i
               PROVE  \E k \in 1..Len(t) : At(k) = j
    OBVIOUS
  <2>1. CASE j < i
    <3>1. j \in 1..Len(t) /\ At(j) = j
      BY <1>1, <1>2, <2>1
    <3>2. QED BY <3>1
  <2>2. CASE j > i
    <3>1. j - 1 \in 1..Len(t) /\ At(j - 1) = j
      BY <1>1, <1>2, <2>2
    <3>2. QED BY <3>1
  <2>3. QED BY <1>1, <2>1, <2>2
<1>4. \A k \in 1..Len(t) : At(k) # i
  BY <1>1, <1>2
<1>5. Elems(t) = Elems(s) \ {s[i]}
  <2>1. ASSUME NEW x \in Elems(t) PROVE x \in Elems(s) \ {s[i]}
    BY <1>2, <1>4 DEF Elems, Distinct
  <2>2. ASSUME NEW x \in Elems(s) \ {s[i]} PROVE x \in Elems(t)
    <3>1. PICK j \in 1..Len(s) : s[j] = x /\ j # i
      BY DEF Elems
    <3>2. PICK k \in 1..Len(t) : At(k) = j
      BY <1>3, <3>1
    <3>3. QED BY <1>2, <3>1, <3>2 DEF Elems
  <2>3. QED BY <2>1, <2>2
<1>6. Distinct(t)
  <2> SUFFICES ASSUME NEW k \in 1..Len(t), NEW l \in 1..Len(t), t[k] = t[l]
               PROVE  k = l
    BY DEF Distinct
  <2>1. At(k) = At(l)
    BY <1>2 DEF Distinct
  <2>2. QED BY <1>1, <1>2, <2>1
<1>7. QED BY <1>2, <1>5, <1>6 DEF t

\* Giving a node of a list without duplicates a fresh address replaces the
\* old address by it.
LEMMA ReplaceElems ==
    ASSUME NEW S, NEW s \in Seq(S), NEW i \in 1..Len(s), Distinct(s),
           NEW q \in S, q \notin Elems(s) \ {s[i]}
    PROVE  LET t == [s EXCEPT ![i] = q]
           IN  /\ t \in Seq(S)
               /\ Elems(t) = (Elems(s) \ {s[i]}) \cup {q}
               /\ Distinct(t)
<1> DEFINE t == [s EXCEPT ![i] = q]
<1>1. /\ t \in Seq(S)
      /\ Len(t) = Len(s)
      /\ t[i] = q
      /\ \A j \in 1..Len(s) : j # i => t[j] = s[j]
  BY ExceptSeq
<1> HIDE DEF t
<1>2. Elems(t) = (Elems(s) \ {s[i]}) \cup {q}
  BY <1>1 DEF Elems, Distinct
<1>3. Distinct(t)
  <2> SUFFICES ASSUME NEW k \in 1..Len(s), NEW l \in 1..Len(s), t[k] = t[l]
               PROVE  k = l
    BY <1>1 DEF Distinct
  <2>1. \A j \in 1..Len(s) : j # i => t[j] # q
    BY <1>1 DEF Elems, Distinct
  <2>2. QED BY <1>1, <2>1 DEF Distinct
<1>4. QED BY <1>1, <1>2, <1>3 DEF t

\* Taking the head off removes its address only.
LEMMA TailElems ==
    ASSUME NEW S, NEW s \in Seq(S), s # <<>>, Distinct(s)
    PROVE  /\ Tail(s) \in Seq(S)
           /\ Head(s) \in Elems(s)
           /\ Elems(Tail(s)) = Elems(s) \ {Head(s)}
           /\ Distinct(Tail(s))
<1>1. /\ Tail(s) \in Seq(S)
      /\ Len(s) \in Nat
      /\ Len(s) > 0
      /\ Len(Tail(s)) = Len(s) - 1
      /\ \A i \in 1..(Len(s) - 1) : Tail(s)[i] = s[i + 1]
      /\ Head(s) = s[1]
  BY EmptySeq, HeadTailProperties
<1> DEFINE t == Tail(s)
<1>2. \A i \in 1..Len(t) : i + 1 \in 1..Len(s) /\ t[i] = s[i + 1]
  BY <1>1
<1>3. \A j \in 1..Len(s) : j # 1 => j - 1 \in 1..Len(t) /\ t[j - 1] = s[j]
  BY <1>1
<1> HIDE DEF t
<1>4. Elems(t) = Elems(s) \ {s[1]}
  <2>1. ASSUME NEW x \in Elems(t) PROVE x \in Elems(s) \ {s[1]}
    BY <1>1, <1>2 DEF Elems, Distinct
  <2>2. ASSUME NEW x \in Elems(s) \ {s[1]} PROVE x \in Elems(t)
    BY <1>3 DEF Elems
  <2>3. QED BY <2>1, <2>2
<1>5. Distinct(t)
  BY <1>1, <1>2 DEF Distinct
<1>6. s[1] \in Elems(s)
  BY <1>1 DEF Elems
<1>7. QED BY <1>1, <1>4, <1>5, <1>6 DEF t

-----------------------------------------------------------------------------
\* The initial state satisfies the strengthened invariant.
LEMMA InitIInv == Init => IInv
<1> SUFFICES ASSUME Init PROVE IInv
  OBVIOUS
<1>1. TypeOK
  <2>1. mem_list \in Seq(Ptr) /\ curr \in Seq(Ptr)
    BY DEF Init
  <2>2. eexit \in BOOLEAN /\ badFree \in BOOLEAN
    BY Zenon DEF Init
  <2>3. heap \subseteq Ptr /\ handed \subseteq Ptr /\ phase \in Phases
    BY DEF Init, Phases
  <2>4. QED BY <2>1, <2>2, <2>3 DEF TypeOK
<1>2. Answered = <<>> /\ handed = {} /\ heap = {} /\ curr = <<>>
  BY DEF Init, Answered
<1>3. Elems(<<>>) = {} /\ Distinct(<<>>)
  BY DEF Elems, Distinct
<1>4. NoBadFree
  BY DEF Init, NoBadFree
<1>5. QED BY <1>1, <1>2, <1>3, <1>4 DEF IInv

\* Every step of the wrappers, and of the process, preserves it.
LEMMA StepIInv == IInv /\ [Next]_vars => IInv'
<1> SUFFICES ASSUME IInv, [Next]_vars PROVE IInv'
  OBVIOUS
<1> USE DEF IInv, TypeOK, NoBadFree, Answered, Phases
<1>1. ASSUME NEW p \in Ptr, Alloc(p) PROVE IInv'
  <2>1. mem_list' = <<p>> \o mem_list /\ p \notin Elems(mem_list)
    BY <1>1 DEF Alloc
  <2>2. mem_list' \in Seq(Ptr) /\ Elems(mem_list') = handed' /\ Distinct(mem_list')
    BY <1>1, <2>1, ConsElems DEF Alloc
  <2>3. QED BY <1>1, <2>2 DEF Alloc
<1>2. ASSUME NEW p \in Ptr, AllocNodeFails(p) PROVE IInv'
  BY <1>2 DEF AllocNodeFails, BeginExit
<1>3. CASE AllocFails
  BY <1>3 DEF AllocFails
<1>4. ASSUME NEW p \in Ptr, NEW q \in Ptr, Realloc(p, q) PROVE IInv'
  <2>1. CASE p \notin Elems(mem_list)
    <3>1. UNCHANGED <<mem_list, handed>>
      BY <1>4, <2>1 DEF Realloc, IsFirst, Elems
    <3>2. QED BY <1>4, <2>1, <3>1 DEF Realloc
  <2>2. CASE p \in Elems(mem_list)
    <3>1. PICK i \in 1..Len(mem_list) : /\ mem_list[i] = p
                                        /\ mem_list' = [mem_list EXCEPT ![i] = q]
      BY <1>4, <2>2 DEF Realloc, IsFirst
    <3>2. q \notin Elems(mem_list) \ {mem_list[i]}
      BY <1>4, <3>1 DEF Realloc
    <3> DEFINE t == [mem_list EXCEPT ![i] = q]
    <3>3. mem_list \in Seq(Ptr) /\ Distinct(mem_list)
      BY <1>4 DEF Realloc
    <3>4. /\ t \in Seq(Ptr)
          /\ Elems(t) = (Elems(mem_list) \ {mem_list[i]}) \cup {q}
          /\ Distinct(t)
      BY <3>2, <3>3, ReplaceElems
    <3>5. /\ mem_list' \in Seq(Ptr)
          /\ Elems(mem_list') = (Elems(mem_list) \ {p}) \cup {q}
          /\ Distinct(mem_list')
      BY <3>1, <3>4
    <3>6. handed' = (handed \ {p}) \cup {q} /\ handed' \subseteq heap'
      BY <1>4, <2>2 DEF Realloc
    <3> HIDE DEF t
    <3>7. QED BY <1>4, <2>2, <3>5, <3>6 DEF Realloc
  <2>3. QED BY <2>1, <2>2
<1>5. ASSUME NEW p \in Ptr, XFree(p) PROVE IInv'
  <2>1. CASE p \notin Elems(mem_list)
    <3>1. UNCHANGED <<mem_list, handed>>
      BY <1>5, <2>1 DEF XFree, IsFirst, Elems
    <3>2. QED BY <1>5, <2>1, <3>1 DEF XFree, Free
  <2>2. CASE p \in Elems(mem_list)
    <3>1. PICK i \in 1..Len(mem_list) : /\ mem_list[i] = p
                                        /\ mem_list' = Unlink(mem_list, i)
      BY <1>5, <2>2 DEF XFree, IsFirst
    <3>2. /\ mem_list' \in Seq(Ptr)
          /\ Elems(mem_list') = Elems(mem_list) \ {p}
          /\ Distinct(mem_list')
      BY <1>5, <3>1, UnlinkElems DEF XFree
    <3>3. QED BY <1>5, <2>2, <3>2 DEF XFree, Free
  <2>3. QED BY <2>1, <2>2
<1>6. ASSUME NEW p \in Ptr, ForeignAlloc(p) PROVE IInv'
  BY <1>6 DEF ForeignAlloc
<1>7. ASSUME NEW p \in Ptr, ForeignFree(p) PROVE IInv'
  BY <1>7 DEF ForeignFree, Free
<1>8. ASSUME NEW b \in BOOLEAN, SetExit(b) PROVE IInv'
  BY <1>8 DEF SetExit
<1>9. CASE Exit
  BY <1>9 DEF Exit, BeginExit
<1>10. CASE CleanupStep
  <2>1. /\ curr' = Tail(curr)
        /\ curr' \in Seq(Ptr)
        /\ Head(curr) \in handed
        /\ Elems(curr') = handed \ {Head(curr)}
        /\ Distinct(curr')
    BY <1>10, TailElems DEF CleanupStep
  <2>2. QED BY <1>10, <2>1 DEF CleanupStep, Free
<1>11. CASE CleanupEnd
  BY <1>11 DEF CleanupEnd, Elems, Distinct
<1>12. CASE UNCHANGED vars
  BY <1>12 DEF vars
<1>13. QED
  BY <1>1, <1>2, <1>3, <1>4, <1>5, <1>6, <1>7, <1>8, <1>9, <1>10, <1>11, <1>12
  DEF Next

\* The strengthened invariant holds in every reachable state.
THEOREM Invariance == Spec => []IInv
<1>1. QED BY InitIInv, StepIInv, PTL DEF Spec

\* The variables of the wrappers keep their types.
THEOREM TypeCorrect == Spec => []TypeOK
<1>1. IInv => TypeOK
  BY DEF IInv
<1>2. QED BY <1>1, Invariance, PTL

\* No address is freed twice and no dead address is freed or reallocated,
\* whether by xfree() or by the two passes of cleanup_all().
THEOREM NeverBadFree == Spec => []NoBadFree
<1>1. IInv => NoBadFree
  BY DEF IInv
<1>2. QED BY <1>1, Invariance, PTL

\* mem_list is exactly what the applets hold from the wrappers.
THEOREM ListExact == Spec => []ListIsHanded
<1>1. IInv => ListIsHanded
  BY DEF IInv, ListIsHanded, Answered
<1>2. QED BY <1>1, Invariance, PTL

\* No block the wrappers answer for outlives the process.
THEOREM NoLeak == Spec => []NoLeakAtExit
<1>1. IInv => NoLeakAtExit
  BY DEF IInv, NoLeakAtExit, Answered, Elems
<1>2. QED BY <1>1, Invariance, PTL

-----------------------------------------------------------------------------
\* Every step of the wrappers is a step of TrackedHeap, or none at all.
LEMMA StepRefines == IInv /\ [Next]_vars => [Abstract!ANext]_(Abstract!avars)
<1> SUFFICES ASSUME IInv, [Next]_vars
             PROVE  Abstract!ANext \/ UNCHANGED Abstract!avars
  OBVIOUS
<1> USE DEF IInv, TypeOK, Answered, Phases, Abstract!avars
<1>1. ASSUME NEW p \in Ptr, Alloc(p) PROVE Abstract!ANext
  BY <1>1 DEF Alloc, Abstract!ANext, Abstract!Acquire
<1>2. ASSUME NEW p \in Ptr, AllocNodeFails(p) PROVE Abstract!ANext
  <2>1. Abstract!StartExit
    <3>1. {p} \in SUBSET (Ptr \ heap) /\ heap' = heap \cup {p}
      BY <1>2 DEF AllocNodeFails
    <3>2. QED BY <1>2, <3>1 DEF AllocNodeFails, BeginExit, Abstract!StartExit
  <2>2. QED BY <2>1 DEF Abstract!ANext
<1>3. CASE AllocFails
  <2>1. {} \in SUBSET (Ptr \ heap) /\ heap' = heap \cup {}
    BY <1>3 DEF AllocFails
  <2>2. QED BY <1>3, <2>1 DEF AllocFails, Abstract!ANext, Abstract!StartExit
<1>4. ASSUME NEW p \in Ptr, NEW q \in Ptr, Realloc(p, q) PROVE Abstract!ANext
  <2>1. Abstract!Relocate(p, q)
    BY <1>4 DEF Realloc, Abstract!Relocate
  <2>2. QED BY <2>1 DEF Abstract!ANext
<1>5. ASSUME NEW p \in Ptr, XFree(p) PROVE Abstract!ANext
  BY <1>5 DEF XFree, Free, Abstract!ANext, Abstract!Release
<1>6. ASSUME NEW p \in Ptr, ForeignAlloc(p) PROVE Abstract!ANext
  BY <1>6 DEF ForeignAlloc, Abstract!ANext, Abstract!AcquireForeign
<1>7. ASSUME NEW p \in Ptr, ForeignFree(p) PROVE Abstract!ANext
  <2>1. handed = handed \ {p}
    BY <1>7 DEF ForeignFree
  <2>2. QED BY <1>7, <2>1 DEF ForeignFree, Free, Abstract!ANext, Abstract!Release
<1>8. ASSUME NEW b \in BOOLEAN, SetExit(b) PROVE UNCHANGED Abstract!avars
  BY <1>8 DEF SetExit
<1>9. CASE Exit
  <2>1. {} \in SUBSET (Ptr \ heap) /\ heap' = heap \cup {}
    BY <1>9 DEF Exit
  <2>2. QED BY <1>9, <2>1 DEF Exit, BeginExit, Abstract!ANext, Abstract!StartExit
<1>10. CASE CleanupStep
  <2>1. Head(curr) \in handed /\ Head(curr) \in Ptr
    BY <1>10, TailElems DEF CleanupStep
  <2>2. Abstract!ReleaseAtExit(Head(curr))
    BY <1>10, <2>1 DEF CleanupStep, Free, Abstract!ReleaseAtExit
  <2>3. QED BY <2>1, <2>2 DEF Abstract!ANext
<1>11. CASE CleanupEnd
  <2>1. CASE phase = "failing"
    BY <1>11, <2>1 DEF CleanupEnd
  <2>2. CASE phase = "atexit"
    <3>1. handed = {}
      BY <1>11, <2>2 DEF CleanupEnd, Elems
    <3>2. QED BY <1>11, <2>2, <3>1 DEF CleanupEnd, Abstract!ANext, Abstract!Exit
  <2>3. QED BY <1>11, <2>1, <2>2 DEF CleanupEnd
<1>12. CASE UNCHANGED vars
  BY <1>12 DEF vars
<1>13. QED
  BY <1>1, <1>2, <1>3, <1>4, <1>5, <1>6, <1>7, <1>8, <1>9, <1>10, <1>11, <1>12
  DEF Next

\* The wrappers implement TrackedHeap: blocks are owned until returned, and
\* a process that is gone owns none.
THEOREM Refinement == Spec => ImplementsTrackedHeap
<1>1. Init => Abstract!AInit
  BY DEF Init, Abstract!AInit
<1>2. QED BY <1>1, StepRefines, Invariance, PTL
          DEF Spec, ImplementsTrackedHeap, Abstract!ASpec
=============================================================================
