------------------------ MODULE ModuleRegistryProofs ------------------------
(***************************************************************************)
(* ModuleRegistry's properties for any section and any command lines.      *)
(***************************************************************************)
EXTENDS ModuleRegistry, SequenceTheorems, WellFoundedInduction, TLAPS

Elems(s) == {s[i] : i \in 1..Len(s)}

(***************************************************************************)
(* What is true between any two steps.  The list holds the entries copied  *)
(* so far, which is what makes "behind the equal ones" mean "in link       *)
(* order", and a complete section once initialization is over.             *)
(***************************************************************************)
RegInv ==
    /\ TypeOK
    /\ RegistryOrdered
    /\ pc = "done" => ~entered
    /\ pc = "find1" => Len(argv) > 1
    /\ pc = "run" => visit >= 1
    /\ entered => initialized
    /\ ~initialized => scan = 0 /\ registry = <<>> /\ pc \in {"find0", "done"}
    /\ scan # 0 => entered /\ pc = "find0" /\ Elems(registry) = 1..(scan - 1)
    /\ initialized /\ scan = 0 /\ pc # "done" => Elems(registry) = Entry

(***************************************************************************)
(* The loop of run_module(): before the matching entry nothing ran, after  *)
(* it exactly that entry did.                                              *)
(***************************************************************************)
RunInv ==
    /\ pc \in {"find0", "find1", "list"} => ran = <<>> /\ visit = 0
    /\ pc = "run" => Found(argv[1])
    /\ pc = "find1" => ~Found(argv[1])
    /\ ran = <<>> => \A i \in 1..Len(registry) :
                        i < visit => Name(registry[i]) # argv[1]
    /\ ran # <<>> => \E i \in 1..Len(registry) :
                        /\ ran = <<registry[i]>>
                        /\ Name(registry[i]) = argv[1]
                        /\ pc = "run" => i < visit
    /\ NothingLost

IInv == RegInv /\ RunInv

-----------------------------------------------------------------------------
\* A set of natural numbers with a member has a least one.
LEMMA Least ==
    ASSUME NEW T \in SUBSET Nat, NEW n \in T
    PROVE  \E m \in T : \A k \in T : m <= k
<1> DEFINE Less == {ss \in Nat \X Nat : ss[1] < ss[2]}
<1>1. IsWellFoundedOn(Less, Nat)
  BY NatLessThanWellFounded DEF OpToRel
<1> HIDE DEF Less
<1>2. PICK m \in T : \A k \in T : ~(<<k, m>> \in Less)
  BY <1>1, WFMin
<1>3. \A k \in T : ~(k < m)
  BY <1>2 DEF Less
<1>4. QED BY <1>3

\* Splicing an element in behind position n.
LEMMA Splice ==
    ASSUME NEW S, NEW s \in Seq(S), NEW e \in S, NEW n \in 0..Len(s)
    PROVE  LET t == InsertBehind(s, n, e)
           IN  /\ t \in Seq(S)
               /\ Len(t) = Len(s) + 1
               /\ \A i \in 1..n : t[i] = s[i]
               /\ t[n + 1] = e
               /\ \A i \in (n + 2)..Len(t) : t[i] = s[i - 1]
<1> DEFINE a == SubSeq(s, 1, n)
           b == SubSeq(s, n + 1, Len(s))
           ae == a \o <<e>>
           t == ae \o b
<1>1. Len(s) \in Nat /\ n \in Nat
  OBVIOUS
<1>2. a \in Seq(S) /\ Len(a) = n /\ \A i \in 1..n : a[i] = s[i]
  BY <1>1, SubSeqProperties
<1>3. b \in Seq(S) /\ Len(b) = Len(s) - n /\ \A i \in 1..(Len(s) - n) : b[i] = s[n + i]
  BY <1>1, SubSeqProperties
<1> HIDE DEF a, b
<1>4. /\ ae \in Seq(S) /\ Len(ae) = n + 1
      /\ \A i \in 1..n : ae[i] = s[i]
      /\ ae[n + 1] = e
  BY <1>1, <1>2, ConcatProperties
<1> HIDE DEF ae
<1>5. /\ t \in Seq(S) /\ Len(t) = Len(ae) + Len(b)
      /\ \A i \in 1..(Len(ae) + Len(b)) :
            t[i] = IF i <= Len(ae) THEN ae[i] ELSE b[i - Len(ae)]
  BY <1>3, <1>4, ConcatProperties
<1> HIDE DEF t
<1>6. ASSUME NEW i \in 1..n PROVE t[i] = s[i]
  <2>1. i \in 1..(Len(ae) + Len(b)) /\ i <= Len(ae)
    BY <1>1, <1>3, <1>4
  <2>2. QED BY <1>4, <1>5, <2>1
<1>7. t[n + 1] = e
  <2>1. n + 1 \in 1..(Len(ae) + Len(b)) /\ n + 1 <= Len(ae)
    BY <1>1, <1>3, <1>4
  <2>2. QED BY <1>4, <1>5, <2>1
<1>8. ASSUME NEW i \in (n + 2)..Len(t) PROVE t[i] = s[i - 1]
  <2>1. i \in 1..(Len(ae) + Len(b)) /\ ~(i <= Len(ae))
    BY <1>1, <1>3, <1>4, <1>5
  <2>2. t[i] = b[i - Len(ae)] /\ i - Len(ae) = i - (n + 1)
    BY <1>4, <1>5, <2>1
  <2>3. i - (n + 1) \in 1..(Len(s) - n) /\ n + (i - (n + 1)) = i - 1
    BY <1>1, <1>3, <1>4, <2>1
  <2>4. QED BY <1>3, <2>2, <2>3
<1>9. Len(t) = Len(s) + 1
  BY <1>1, <1>3, <1>4, <1>5
<1>10. t = InsertBehind(s, n, e)
  BY DEF t, ae, a, b, InsertBehind
<1>11. QED BY <1>5, <1>6, <1>7, <1>8, <1>9, <1>10

\* Entries are numbers, with numbers for priorities.
LEMMA EntryTypes ==
    ASSUME SectionAssumption
    PROVE  \A e \in Entry : e \in Nat /\ Priority(e) \in Nat
<1> SUFFICES ASSUME NEW e \in Entry PROVE e \in Nat /\ Priority(e) \in Nat
  OBVIOUS
<1>1. Section \in Seq([name : Word \ Dashed, priority : Nat]) /\ e \in 1..Len(Section)
  BY DEF SectionAssumption, Entry
<1> DEFINE R == [name : Word \ Dashed, priority : Nat]
<1>2. Section[e] \in R
  <2>1. Section \in Seq(R)
    BY <1>1
  <2> HIDE DEF R
  <2>2. QED BY <1>1, <2>1, ElementOfSeq
<1>3. QED BY <1>1, <1>2 DEF Priority

\* Where insert_sorted() puts an entry: behind all entries of a priority that
\* is not larger, in front of all of a larger one.
LEMMA InsertPosition ==
    ASSUME NEW s \in Seq(Entry), NEW e \in Entry, SectionAssumption,
           \A i, j \in 1..Len(s) : i < j => Priority(s[i]) <= Priority(s[j])
    PROVE  \E n \in 0..Len(s) :
              /\ InsertSorted(s, e) = InsertBehind(s, n, e)
              /\ \A i \in 1..n : Priority(s[i]) <= Priority(e)
              /\ \A i \in (n + 1)..Len(s) : Priority(e) < Priority(s[i])
<1>1. /\ Len(s) \in Nat
      /\ \A i \in 1..Len(s) : s[i] \in Entry /\ Priority(s[i]) \in Nat
      /\ Priority(e) \in Nat
  BY EntryTypes
<1>2. CASE s = <<>> \/ Priority(e) < Priority(Head(s))
  <2>1. InsertSorted(s, e) = <<e>> \o s
    BY <1>2 DEF InsertSorted
  <2>2. SubSeq(s, 1, 0) \o <<e>> \o SubSeq(s, 0 + 1, Len(s)) = <<e>> \o s
    <3>1. SubSeq(s, 1, 0) = <<>> /\ SubSeq(s, 1, Len(s)) = s
      BY <1>1
    <3>2. <<>> \o <<e>> = <<e>>
      OBVIOUS
    <3>3. QED BY <3>1, <3>2
  <2>3. \A i \in 1..Len(s) : Priority(e) < Priority(s[i])
    <3>1. CASE s = <<>>
      BY <3>1
    <3>2. CASE s # <<>>
      <4>1. Head(s) = s[1] /\ 1 \in 1..Len(s)
        BY <1>1, <3>2, EmptySeq
      <4>2. \A i \in 1..Len(s) : Priority(s[1]) <= Priority(s[i])
        BY <1>1, <4>1
      <4>3. QED BY <1>1, <1>2, <3>2, <4>1, <4>2
    <3>3. QED BY <3>1, <3>2
  <2>4. InsertSorted(s, e) = InsertBehind(s, 0, e)
    BY <2>1, <2>2 DEF InsertBehind
  <2>5. \A i \in 1..0 : Priority(s[i]) <= Priority(e)
    OBVIOUS
  <2>6. 0 \in 0..Len(s) /\ \A i \in (0 + 1)..Len(s) : Priority(e) < Priority(s[i])
    BY <1>1, <2>3
  <2>7. QED BY <2>4, <2>5, <2>6
<1>3. CASE ~(s = <<>> \/ Priority(e) < Priority(Head(s)))
  <2> DEFINE Stop(k) == k < Len(s) => Priority(s[k + 1]) > Priority(e)
             Chosen(k) == (\A i \in 2..k : Priority(s[i]) <= Priority(e)) /\ Stop(k)
             T == {k \in 1..Len(s) : Stop(k)}
             n == CHOOSE k \in 1..Len(s) : Chosen(k)
  <2>1. Len(s) >= 1 /\ Priority(s[1]) <= Priority(e)
    <3>1. Head(s) = s[1] /\ 1 \in 1..Len(s)
      BY <1>1, <1>3, EmptySeq
    <3>2. QED BY <1>1, <1>3, <3>1
  <2>2. PICK m \in T : \A k \in T : m <= k
    <3>1. Len(s) \in T /\ T \in SUBSET Nat
      BY <1>1, <2>1
    <3> HIDE DEF T
    <3>2. QED BY <3>1, Least
  <2>3. \A i \in 2..m : Priority(s[i]) <= Priority(e)
    <3> SUFFICES ASSUME NEW i \in 2..m PROVE Priority(s[i]) <= Priority(e)
      OBVIOUS
    <3>1. m \in 1..Len(s)
      BY <2>2
    <3>2. i - 1 \in 1..Len(s) /\ i - 1 < m /\ i \in 1..Len(s) /\ (i - 1) + 1 = i
      BY <1>1, <3>1
    <3>3. i - 1 \notin T
      <4> HIDE DEF T
      <4>1. QED BY <1>1, <2>2, <3>1, <3>2
    <3>4. ~(Priority(s[i]) > Priority(e))
      BY <1>1, <3>2, <3>3
    <3>5. QED BY <1>1, <3>2, <3>4
  <2>4. m \in 1..Len(s) /\ Chosen(m)
    BY <2>2, <2>3
  <2>5. n \in 1..Len(s) /\ Chosen(n)
    <3> HIDE DEF Chosen
    <3>1. QED BY <2>4
  <2>6. InsertSorted(s, e) = InsertBehind(s, n, e)
    BY <1>3 DEF InsertSorted
  <2> HIDE DEF n
  <2>7. \A i \in 1..n : Priority(s[i]) <= Priority(e)
    BY <1>1, <2>1, <2>5
  <2>8. ASSUME NEW i \in (n + 1)..Len(s)
        PROVE  Priority(e) < Priority(s[i])
    <3>1. n + 1 \in 1..Len(s) /\ i \in 1..Len(s) /\ Priority(s[n + 1]) > Priority(e)
      BY <1>1, <2>5
    <3>2. Priority(s[n + 1]) <= Priority(s[i])
      BY <1>1, <3>1
    <3>3. QED BY <1>1, <3>1, <3>2
  <2>9. n \in 0..Len(s)
    BY <1>1, <2>5
  <2>10. QED BY <2>6, <2>7, <2>8, <2>9
<1>4. QED BY <1>2, <1>3

\* Inserting an entry that comes later in the section than all those on an
\* ordered list yields an ordered list with that entry added.
LEMMA InsertOrdered ==
    ASSUME NEW s \in Seq(Entry), NEW e \in Entry, SectionAssumption,
           \A i, j \in 1..Len(s) : i < j => Before(s[i], s[j]),
           \A i \in 1..Len(s) : s[i] < e
    PROVE  /\ InsertSorted(s, e) \in Seq(Entry)
           /\ Elems(InsertSorted(s, e)) = Elems(s) \cup {e}
           /\ \A i, j \in 1..Len(InsertSorted(s, e)) :
                 i < j => Before(InsertSorted(s, e)[i], InsertSorted(s, e)[j])
<1> DEFINE t == InsertSorted(s, e)
<1>1. /\ Len(s) \in Nat
      /\ \A i \in 1..Len(s) : s[i] \in Entry /\ s[i] \in Nat /\ Priority(s[i]) \in Nat
      /\ e \in Nat /\ Priority(e) \in Nat
  BY EntryTypes
<1>2. \A i, j \in 1..Len(s) : i < j => Priority(s[i]) <= Priority(s[j])
  BY <1>1, SMTT(60) DEF Before
<1>3. PICK n \in 0..Len(s) :
         /\ t = InsertBehind(s, n, e)
         /\ \A i \in 1..n : Priority(s[i]) <= Priority(e)
         /\ \A i \in (n + 1)..Len(s) : Priority(e) < Priority(s[i])
  BY <1>2, InsertPosition
<1> HIDE DEF t
<1>4. /\ t \in Seq(Entry)
      /\ Len(t) = Len(s) + 1
      /\ \A i \in 1..n : t[i] = s[i]
      /\ t[n + 1] = e
      /\ \A i \in (n + 2)..Len(t) : t[i] = s[i - 1]
  <2> DEFINE u == InsertBehind(s, n, e)
  <2>1. /\ u \in Seq(Entry)
        /\ Len(u) = Len(s) + 1
        /\ \A i \in 1..n : u[i] = s[i]
        /\ u[n + 1] = e
        /\ \A i \in (n + 2)..Len(u) : u[i] = s[i - 1]
    BY Splice
  <2>2. t = u
    BY <1>3
  <2> HIDE DEF u
  <2>3. QED BY <2>1, <2>2
<1>5. Elems(t) = Elems(s) \cup {e}
  <2>1. ASSUME NEW i \in 1..Len(t) PROVE t[i] \in Elems(s) \cup {e}
    <3>1. CASE i <= n
      <4>1. i \in 1..n /\ i \in 1..Len(s)
        BY <1>1, <1>4, <3>1
      <4>2. QED BY <1>4, <4>1 DEF Elems
    <3>2. CASE i = n + 1
      BY <1>4, <3>2
    <3>3. CASE i > n + 1
      <4>1. i \in (n + 2)..Len(t) /\ i - 1 \in 1..Len(s)
        BY <1>1, <1>4, <3>3
      <4>2. QED BY <1>4, <4>1 DEF Elems
    <3>4. QED BY <1>1, <1>4, <3>1, <3>2, <3>3
  <2>2. ASSUME NEW i \in 1..Len(s) PROVE s[i] \in Elems(t)
    <3>1. CASE i <= n
      BY <1>1, <1>4, <3>1 DEF Elems
    <3>2. CASE i > n
      <4>1. i + 1 \in (n + 2)..Len(t) /\ i + 1 \in 1..Len(t) /\ (i + 1) - 1 = i
        BY <1>1, <1>4, <3>2
      <4>2. t[i + 1] = s[i]
        BY <1>4, <4>1
      <4>3. QED BY <4>1, <4>2 DEF Elems
    <3>3. QED BY <1>1, <3>1, <3>2
  <2>3. e \in Elems(t)
    BY <1>1, <1>4 DEF Elems
  <2>4. ASSUME NEW x \in Elems(t) PROVE x \in Elems(s) \cup {e}
    BY <2>1 DEF Elems
  <2>5. ASSUME NEW x \in Elems(s) PROVE x \in Elems(t)
    BY <2>2 DEF Elems
  <2>6. QED BY <2>3, <2>4, <2>5
<1>6. ASSUME NEW i \in 1..Len(t), NEW j \in 1..Len(t), i < j
      PROVE  Before(t[i], t[j])
  <2>1. CASE j <= n
    <3>1. i \in 1..n /\ j \in 1..n /\ i \in 1..Len(s) /\ j \in 1..Len(s)
      BY <1>1, <1>4, <1>6, <2>1
    <3>2. QED BY <1>4, <1>6, <3>1
  <2>2. CASE j = n + 1
    <3>1. i \in 1..n /\ i \in 1..Len(s) /\ t[i] = s[i] /\ t[j] = e
      BY <1>1, <1>4, <1>6, <2>2
    <3>2. Priority(s[i]) <= Priority(e) /\ s[i] < e
      BY <1>3, <3>1
    <3>3. QED BY <1>1, <3>1, <3>2 DEF Before
  <2>3. CASE j > n + 1
    <3>1. j - 1 \in (n + 1)..Len(s) /\ j - 1 \in 1..Len(s) /\ t[j] = s[j - 1]
      BY <1>1, <1>4, <2>3
    <3>2. CASE i <= n
      <4>1. i \in 1..Len(s) /\ i < j - 1 /\ t[i] = s[i]
        BY <1>1, <1>4, <2>3, <3>2
      <4>2. QED BY <3>1, <4>1
    <3>3. CASE i = n + 1
      BY <1>1, <1>3, <1>4, <3>1, <3>3 DEF Before
    <3>4. CASE i > n + 1
      <4>1. i - 1 \in 1..Len(s) /\ i - 1 < j - 1 /\ t[i] = s[i - 1]
        BY <1>1, <1>4, <1>6, <3>4
      <4>2. QED BY <3>1, <4>1
    <3>5. QED BY <1>1, <3>2, <3>3, <3>4
  <2>4. QED BY <1>1, <1>4, <2>1, <2>2, <2>3
<1>7. QED BY <1>4, <1>5, <1>6 DEF t

\* A sequence of two or more, without its head.
LEMMA TailNotEmpty ==
    ASSUME NEW S, NEW s \in Seq(S), Len(s) > 1
    PROVE  Tail(s) \in Seq(S) /\ Tail(s) # <<>> /\ Tail(s)[1] = s[2]
<1> DEFINE t == Tail(s)
<1>1. s # <<>> /\ Len(s) \in Nat
  OBVIOUS
<1>2. /\ t \in Seq(S)
      /\ Len(t) = Len(s) - 1
      /\ \A i \in 1..Len(t) : t[i] = s[i + 1]
  BY <1>1, HeadTailProperties
<1> HIDE DEF t
<1>3. 1 \in 1..Len(t) /\ Len(t) # 0
  BY <1>1, <1>2
<1>4. t # <<>>
  BY <1>3
<1>5. t[1] = s[2]
  BY <1>2, <1>3
<1>6. QED BY <1>2, <1>4, <1>5 DEF t

-----------------------------------------------------------------------------
\* The empty registry of the initial state.
LEMMA InitIInv == Init => IInv
<1> SUFFICES ASSUME Init PROVE IInv
  OBVIOUS
<1>1. TypeOK
  <2>1. argv \in Seq(Word) \ {<<>>}
    BY ArgvAssumption DEF Init
  <2>2. registry \in Seq(Entry) /\ ran \in Seq(Entry)
    BY DEF Init
  <2>3. initialized \in BOOLEAN /\ entered \in BOOLEAN
    BY Zenon DEF Init
  <2>4. Len(Section) \in Nat
    BY SectionAssumption DEF SectionAssumption
  <2>5. scan \in 0..(Len(Section) + 1) /\ visit \in Nat /\ status \in {0, 1}
    BY <2>4 DEF Init
  <2>6. pc \in {"find0", "find1", "run", "list", "done"}
    BY DEF Init
  <2>7. QED BY <2>1, <2>2, <2>3, <2>5, <2>6 DEF TypeOK
<1>2. RegInv
  BY <1>1 DEF Init, RegInv, RegistryOrdered
<1>3. RunInv
  BY DEF Init, RunInv, NothingLost
<1>4. QED BY <1>2, <1>3 DEF IInv

\* The registration is preserved by every step: only CopyEntry touches the
\* list, and only while no other function is at work.
LEMMA StepRegInv == RegInv /\ [Next]_vars => RegInv'
<1> SUFFICES ASSUME RegInv, [Next]_vars PROVE RegInv'
  OBVIOUS
<1> USE DEF RegInv
<1>0. SectionAssumption /\ Len(Section) \in Nat
  BY SectionAssumption DEF SectionAssumption
<1>1. CASE EnterInit
  <2>1. CASE initialized
    BY <1>1, <2>1 DEF EnterInit, TypeOK, RegistryOrdered, Before, Elems
  <2>2. CASE ~initialized
    <3>1. Elems(registry) = {} /\ 1..(1 - 1) = {}
      BY <2>2 DEF Elems
    <3>2. 1 \in 0..(Len(Section) + 1)
      BY <1>0
    <3>3. QED BY <1>1, <2>2, <3>1, <3>2
             DEF EnterInit, TypeOK, RegistryOrdered, Before, Elems
  <2>3. QED BY <2>1, <2>2 DEF TypeOK
<1>2. CASE CopyEntry
  <2>1. scan \in Entry /\ scan \in 1..Len(Section) /\ scan # 0 /\ scan \in Nat
    BY <1>0, <1>2 DEF CopyEntry, Entry
  <2>2. /\ registry \in Seq(Entry)
        /\ \A i, j \in 1..Len(registry) : i < j => Before(registry[i], registry[j])
        /\ Elems(registry) = 1..(scan - 1)
    BY <2>1 DEF TypeOK, RegistryOrdered
  <2>3. \A i \in 1..Len(registry) : registry[i] < scan
    <3> SUFFICES ASSUME NEW i \in 1..Len(registry) PROVE registry[i] < scan
      OBVIOUS
    <3>1. registry[i] \in 1..(scan - 1)
      BY <2>2 DEF Elems
    <3>2. QED BY <2>1, <3>1
  <2>4. /\ registry' \in Seq(Entry)
        /\ Elems(registry') = Elems(registry) \cup {scan}
        /\ \A i, j \in 1..Len(registry') :
              i < j => Before(registry'[i], registry'[j])
    BY <1>0, <1>2, <2>1, <2>2, <2>3, InsertOrdered DEF CopyEntry
  <2>5. Elems(registry)' = 1..(scan' - 1)
    <3>1. 1..((scan + 1) - 1) = (1..(scan - 1)) \cup {scan}
      BY <2>1
    <3>2. QED BY <1>2, <2>2, <2>4, <3>1 DEF CopyEntry, Elems
  <2>6. scan' \in 0..(Len(Section) + 1) /\ scan' # 0
    BY <1>0, <1>2, <2>1 DEF CopyEntry
  <2>7. RegistryOrdered'
    BY <2>4 DEF RegistryOrdered, Before
  <2>8. TypeOK'
    BY <1>2, <2>4, <2>6 DEF CopyEntry, TypeOK
  <2>9. QED BY <1>2, <2>1, <2>5, <2>6, <2>7, <2>8 DEF CopyEntry
<1>3. CASE InitDone
  <2>1. Elems(registry) = Entry /\ scan # 0
    BY <1>0, <1>3 DEF InitDone, Entry
  <2>2. QED BY <1>0, <1>3, <2>1
           DEF InitDone, TypeOK, RegistryOrdered, Before, Elems
<1>4. ASSUME UNCHANGED <<registry, initialized>>, scan' = 0, entered' = FALSE, entered,
             argv' \in Seq(Word) \ {<<>>}, visit' \in Nat,
             ran' \in Seq(Entry), status' \in {0, 1},
             \/ pc' = "done"
             \/ scan = 0 /\ pc # "done" /\ pc' = "list"
             \/ scan = 0 /\ pc # "done" /\ pc' = "run" /\ visit' >= 1
             \/ scan = 0 /\ pc # "done" /\ pc' = "find1" /\ Len(argv') > 1
      PROVE  RegInv'
  <2>1. TypeOK'
    <3>1. scan' \in 0..(Len(Section) + 1)
      BY <1>0, <1>4
    <3>2. initialized' \in BOOLEAN
      BY <1>4 DEF TypeOK
    <3>3. pc' \in {"find0", "find1", "run", "list", "done"}
      BY <1>4
    <3>4. registry' \in Seq(Entry)
      BY <1>4 DEF TypeOK
    <3>5. entered' \in BOOLEAN
      BY <1>4
    <3>6. QED BY <1>4, <3>1, <3>2, <3>3, <3>4, <3>5 DEF TypeOK
  <2>2. RegistryOrdered'
    BY <1>4 DEF RegistryOrdered, Before
  <2>3. scan = 0 /\ pc # "done" => Elems(registry') = Entry
    BY <1>4 DEF Elems
  <2>4. QED BY <1>4, <2>1, <2>2, <2>3 DEF Elems
<1>5. CASE CopyFails
  <2>1. scan # 0
    BY <1>0, <1>5 DEF CopyFails, Entry
  <2>2. QED BY <1>4, <1>5, <2>1 DEF CopyFails, Return, Goto, TypeOK
<1>6. CASE FindProgname
  <2>1. /\ UNCHANGED <<argv, registry, initialized, scan, ran>>
        /\ scan = 0 /\ pc # "done" /\ entered /\ entered' = FALSE
    BY <1>6 DEF FindProgname, Ready, Return, Goto
  <2>2. visit' \in Nat /\ status' \in {0, 1}
    BY <1>6 DEF FindProgname, Return, TypeOK
  <2>3. \/ pc' \in {"done", "list"}
        \/ pc' = "run" /\ visit' >= 1
        \/ pc' = "find1" /\ Len(argv') > 1
    BY <1>6 DEF FindProgname, Return, Goto
  <2>4. QED BY <1>4, <2>1, <2>2, <2>3 DEF TypeOK
<1>7. CASE FindArgv1
  <2>1. /\ UNCHANGED <<registry, initialized, scan, ran>>
        /\ scan = 0 /\ pc = "find1" /\ entered /\ entered' = FALSE
    BY <1>7 DEF FindArgv1, Ready, Return, Goto
  <2>2. /\ visit' \in Nat /\ status' \in {0, 1}
        /\ pc' \in {"done", "list"} \/ (pc' = "run" /\ visit' >= 1)
    BY <1>7 DEF FindArgv1, Return, Goto, TypeOK
  <2>3. argv' \in Seq(Word) \ {<<>>}
    <3>1. Tail(argv) \in Seq(Word) /\ Tail(argv) # <<>>
      BY <2>1, TailNotEmpty DEF TypeOK
    <3>2. argv' = argv \/ argv' = Tail(argv)
      BY <1>7 DEF FindArgv1
    <3>3. QED BY <3>1, <3>2 DEF TypeOK
  <2>4. QED BY <1>4, <2>1, <2>2, <2>3 DEF TypeOK
<1>8. CASE ListAll
  BY <1>4, <1>8 DEF ListAll, Ready, Goto, TypeOK
<1>9. CASE VisitEntry
  <2>1. /\ UNCHANGED <<argv, registry, initialized, scan>>
        /\ pc = "run" /\ entered /\ scan = 0
    BY <1>9 DEF VisitEntry, Ready
  <2>2. visit' \in Nat /\ ran' \in Seq(Entry) /\ status' \in {0, 1}
    <3>1. registry[visit] \in Entry
      <4>1. registry \in Seq(Entry) /\ visit \in 1..Len(registry)
        BY <1>9, <2>1 DEF VisitEntry, TypeOK
      <4>2. QED BY <4>1
    <3>2. visit \in Nat /\ ran \in Seq(Entry) /\ status \in {0, 1}
      BY DEF TypeOK
    <3> HIDE DEF RegInv
    <3>3. visit' \in {visit, visit + 1} /\ status' \in {0, 1, status}
      BY <1>9 DEF VisitEntry, Return
    <3>4. ran' = ran \/ ran' = Append(ran, registry[visit])
      BY <1>9 DEF VisitEntry
    <3>5. Append(ran, registry[visit]) \in Seq(Entry)
      BY <3>1, <3>2
    <3>6. QED BY <3>2, <3>3, <3>4, <3>5
  <2>3. CASE pc' = "done" /\ entered' = FALSE
    BY <1>4, <2>1, <2>2, <2>3 DEF TypeOK
  <2>4. CASE pc' = pc /\ entered' = entered /\ visit' >= 1
    BY <2>1, <2>2, <2>4 DEF TypeOK, RegistryOrdered, Before, Elems
  <2>5. visit >= 1 /\ visit \in Nat
    BY <2>1 DEF TypeOK
  <2>6. visit + 1 >= 1
    BY <2>5
  <2>7. \/ pc' = "done" /\ entered' = FALSE
        \/ pc' = pc /\ entered' = entered /\ visit' = visit + 1
    <3> HIDE DEF RegInv
    <3>1. CASE Name(registry[visit]) # argv[1]
      BY <1>9, <3>1 DEF VisitEntry
    <3>2. CASE Name(registry[visit]) = argv[1]
      BY <1>9, <3>2 DEF VisitEntry, Return, Goto
    <3>3. QED BY <3>1, <3>2
  <2>8. QED BY <2>3, <2>4, <2>6, <2>7
<1>10. CASE RunDone
  <2>1. /\ UNCHANGED <<argv, registry, initialized, scan, visit, ran>>
        /\ pc' = "done" /\ entered /\ entered' = FALSE /\ scan = 0
    BY <1>10 DEF RunDone, Ready, Return, Goto
  <2>2. status' \in {0, 1}
    BY <1>10 DEF RunDone, Return, TypeOK
  <2>3. QED BY <1>4, <2>1, <2>2 DEF TypeOK
<1>11. CASE UNCHANGED vars
  BY <1>11 DEF vars, TypeOK, RegistryOrdered, Before, Elems
<1>12. QED
  BY <1>1, <1>2, <1>3, <1>5, <1>6, <1>7, <1>8, <1>9, <1>10, <1>11 DEF Next

-----------------------------------------------------------------------------
\* Two positions of an ordered list hold different entries, and different
\* entries have different names.
LEMMA NamesOnce ==
    ASSUME RegInv, NEW i \in 1..Len(registry), NEW j \in 1..Len(registry),
           Name(registry[i]) = Name(registry[j])
    PROVE  i = j
<1>1. registry[i] \in Entry /\ registry[j] \in Entry /\ Len(registry) \in Nat
  BY DEF RegInv, TypeOK
<1>2. registry[i] = registry[j]
  BY <1>1, SectionAssumption DEF SectionAssumption
<1>3. \A e \in Entry : e \in Nat /\ Priority(e) \in Nat
  BY SectionAssumption, EntryTypes
<1>4. ~(i < j) /\ ~(j < i)
  BY <1>1, <1>2, <1>3 DEF RegInv, RegistryOrdered, Before
<1>5. QED BY <1>1, <1>4

\* The run is preserved too.
LEMMA StepRunInv == IInv /\ RegInv' /\ [Next]_vars => RunInv'
<1> SUFFICES ASSUME IInv, RegInv', [Next]_vars PROVE RunInv'
  OBVIOUS
<1> USE DEF IInv, RunInv
<1>0. visit \in Nat /\ Len(registry) \in Nat
  BY DEF RegInv, TypeOK
<1>1. CASE EnterInit \/ InitDone \/ UNCHANGED vars
  BY <1>1 DEF EnterInit, InitDone, vars, NothingLost, Found
<1>2. CASE CopyEntry
  BY <1>2 DEF CopyEntry, Entry, RegInv, NothingLost
<1>3. CASE CopyFails
  BY <1>0, <1>3 DEF CopyFails, Entry, RegInv, NothingLost, Return, Goto
<1>4. CASE FindProgname
  BY <1>0, <1>4 DEF FindProgname, Ready, Return, Goto, NothingLost, Found, RegInv, TypeOK
<1>5. CASE FindArgv1
  <2>1. /\ UNCHANGED <<registry, initialized, scan, ran>>
        /\ pc = "find1" /\ ran = <<>> /\ visit = 0
    BY <1>5 DEF FindArgv1, Ready
  <2>2. CASE argv' = argv /\ pc' \in {"list", "done"} /\ visit' = visit
    BY <1>0, <2>1, <2>2 DEF NothingLost
  <2>3. CASE argv' = Tail(argv) /\ pc' = "run" /\ visit' = 1 /\ Found(argv[2])
    <3>1. Tail(argv)[1] = argv[2]
      BY <2>1, TailNotEmpty DEF RegInv, TypeOK
    <3>2. Found(argv[1])'
      BY <2>1, <2>3, <3>1 DEF Found
    <3>3. \A i \in 1..Len(registry) : ~(i < 1)
      BY <1>0
    <3>4. QED BY <2>1, <2>3, <3>2, <3>3 DEF NothingLost, Found
  <2>4. QED BY <1>5, <2>2, <2>3 DEF FindArgv1, Return, Goto
<1>6. CASE ListAll
  BY <1>0, <1>6 DEF ListAll, Ready, Return, Goto, NothingLost
<1>7. CASE VisitEntry
  <2>1. /\ UNCHANGED <<argv, registry, initialized, scan>>
        /\ pc = "run" /\ visit \in 1..Len(registry)
        /\ Found(argv[1])' = Found(argv[1])
    BY <1>0, <1>7 DEF VisitEntry, Ready, RegInv, Found
  <2>2. CASE Name(registry[visit]) # argv[1]
    <3>1. visit' = visit + 1 /\ UNCHANGED <<pc, ran>>
      BY <1>7, <2>2 DEF VisitEntry
    <3>2. \A i \in 1..Len(registry) : i < visit + 1 => i < visit \/ i = visit
      BY <1>0
    <3>3. QED BY <1>0, <2>1, <2>2, <3>1, <3>2 DEF NothingLost, Found
  <2>3. CASE Name(registry[visit]) = argv[1]
    <3>1. ran' = Append(ran, registry[visit])
      BY <1>7, <2>3 DEF VisitEntry
    <3>2. ran = <<>>
      <4>1. ASSUME NEW i \in 1..Len(registry), Name(registry[i]) = argv[1]
            PROVE  i = visit
        BY <2>1, <2>3, <4>1, NamesOnce
      <4>2. QED BY <1>0, <2>1, <4>1
    <3>3. ran' = <<registry[visit]>> /\ ran' # <<>>
      BY <3>1, <3>2
    <3>4. pc' = "done" \/ (pc' = "run" /\ visit < visit')
      BY <1>0, <1>7, <2>1, <2>3 DEF VisitEntry, Return, Goto
    <3>5. QED BY <2>1, <2>3, <3>3, <3>4 DEF NothingLost, Found
  <2>4. QED BY <2>2, <2>3
<1>8. CASE RunDone
  <2>1. /\ UNCHANGED <<argv, registry, visit, ran>>
        /\ pc = "run" /\ pc' = "done" /\ visit > Len(registry)
    BY <1>8 DEF RunDone, Ready, Return, Goto
  <2>2. ran # <<>>
    <3>1. PICK i \in 1..Len(registry) : Name(registry[i]) = argv[1]
      BY <2>1 DEF Found
    <3>2. QED BY <1>0, <2>1, <3>1
  <2>3. QED BY <2>1, <2>2 DEF NothingLost, Found
<1>9. QED
  BY <1>1, <1>2, <1>3, <1>4, <1>5, <1>6, <1>7, <1>8 DEF Next

\* Both parts of the invariant hold in every reachable state.
THEOREM Invariance == Spec => []IInv
<1>1. IInv /\ [Next]_vars => IInv'
  BY StepRegInv, StepRunInv DEF IInv
<1>2. QED BY <1>1, InitIInv, PTL DEF Spec

\* The variables keep their types.
THEOREM TypeCorrect == Spec => []TypeOK
<1>1. IInv => TypeOK
  BY DEF IInv, RegInv
<1>2. QED BY <1>1, Invariance, PTL

\* insert_sorted() is a stable sort, for every section and at every moment.
THEOREM StableSort == Spec => []RegistryOrdered
<1>1. IInv => RegistryOrdered
  BY DEF IInv, RegInv
<1>2. QED BY <1>1, Invariance, PTL

\* A lookup never sees a registry from which an entry is missing.
THEOREM CompleteWhenRead == Spec => []RegistryComplete
<1>1. IInv => RegistryComplete
  BY DEF IInv, RegInv, RegistryComplete, Elems
<1>2. QED BY <1>1, Invariance, PTL

\* One applet at most, the named one.
THEOREM RunsNamed == Spec => []RunsTheOneNamed
<1>1. IInv => RunsTheOneNamed
  <2>1. ASSUME IInv, ran = <<>> PROVE RunsTheOneNamed
    BY <2>1 DEF RunsTheOneNamed
  <2>2. ASSUME IInv, ran # <<>> PROVE RunsTheOneNamed
    <3>1. PICK i \in 1..Len(registry) :
             ran = <<registry[i]>> /\ Name(registry[i]) = argv[1]
      BY <2>2 DEF IInv, RunInv
    <3>2. Len(ran) = 1 /\ ran[1] = registry[i]
      BY <3>1
    <3>3. QED BY <3>1, <3>2 DEF RunsTheOneNamed
  <2>3. QED BY <2>1, <2>2
<1>2. QED BY <1>1, Invariance, PTL

\* An applet that was found is run.
THEOREM FoundIsRun == Spec => []NothingLost
<1>1. IInv => NothingLost
  BY DEF IInv, RunInv
<1>2. QED BY <1>1, Invariance, PTL

\* argv[1] is tried only when no applet at all has the name in argv[0].
THEOREM LinkWins == Spec => LinkNameWins
<1>1. IInv /\ [Next]_vars => [argv' # argv => \A e \in Entry : Name(e) # argv[1]]_vars
  <2> SUFFICES ASSUME IInv, Next, argv' # argv, NEW e \in Entry
               PROVE  Name(e) # argv[1]
    BY DEF vars
  <2>1. FindArgv1
    BY DEF Next, EnterInit, CopyEntry, CopyFails, InitDone, FindProgname,
           ListAll, VisitEntry, RunDone
  <2>2. /\ pc = "find1"
        /\ ~Found(argv[1])
        /\ Elems(registry) = Entry
    BY <2>1 DEF FindArgv1, Ready, IInv, RegInv, RunInv
  <2>3. PICK i \in 1..Len(registry) : registry[i] = e
    BY <2>2 DEF Elems
  <2>4. QED BY <2>2, <2>3 DEF Found
<1>2. QED BY <1>1, Invariance, PTL DEF Spec, LinkNameWins
=============================================================================
