--------------------------- MODULE PersistenceProofs ---------------------------
(***************************************************************************)
(* What a restart finds in the two lists and in the history, for any       *)
(* number of devices, of handlers that save at once and of goroutines that *)
(* record events, and for any failing writes and restarts.                 *)
(***************************************************************************)
EXTENDS Persistence, FiniteSetTheorems, SequenceTheorems, TLAPS

-----------------------------------------------------------------------------
(* Files *)

\* A list has a length.
LEMMA ListLength ==
  ASSUME NEW list \in SUBSET MAC
  PROVE  Cardinality(list) \in Nat
  BY FS_Subset, FS_CardinalityType, ProcessAssumption

\* Whatever is written, and over whatever, is a file (os.WriteFile).
LEMMA WrittenType ==
  ASSUME NEW old \in FileState, NEW list \in SUBSET MAC
  PROVE  Written(old, list) \in FileState
  BY ListLength DEF Written, FileState

\* What is written to a truncated file is what a restart reads (os.WriteFile,
\* loadTrusted, loadKnownDevices).
LEMMA WrittenLoads ==
  ASSUME NEW old \in FileState, old.length = 0, NEW list \in SUBSET MAC
  PROVE  Loaded(Written(old, list)) = list
  BY ListLength DEF Written, Loaded

\* What a restart reads is a list (loadTrusted, loadKnownDevices).
LEMMA LoadedType ==
  ASSUME NEW f \in FileState
  PROVE  Loaded(f) \in SUBSET MAC
  BY DEF Loaded, FileState

\* A new or truncated file, and a writer at rest, have their shapes.
LEMMA RestTypes == Empty \in FileState /\ Idle \in SaveState
  BY DEF Empty, FileState, Idle, SaveState

\* Every writer saves one of the two lists.
LEMMA ListOfType == \A w \in Writer : ListOf(w) \in List
  BY DEF ListOf, List

-----------------------------------------------------------------------------
(* Types *)

\* A change of a list keeps the types (setTrusted, markSeen).
LEMMA BeginType ==
  ASSUME ListsOK, NEW w \in Writer, NEW list \in SUBSET MAC, Begin(w, list)
  PROVE  ListsOK'
  BY ListOfType DEF ListsOK, Begin, SaveState

\* Every step keeps the types of the lists (trust.go, inventory.go).
LEMMA ListsStep == ListsOK /\ [Next]_vars => ListsOK'
<1> SUFFICES ASSUME ListsOK, [Next]_vars PROVE ListsOK'
  OBVIOUS
<1>1. ASSUME NEW h \in Handler, NEW mac \in MAC, NEW value \in BOOLEAN,
             setTrusted(h, mac, value)
      PROVE  ListsOK'
  <2> DEFINE trusted == memory["confiaveis"]
             list == IF value THEN trusted \cup {mac} ELSE trusted \ {mac}
  <2>1. list \in SUBSET MAC
    BY DEF ListsOK, List
  <2>2. h \in Writer /\ Begin(h, list)
    BY <1>1 DEF setTrusted, Writer
  <2> QED BY <2>1, <2>2, BeginType
<1>2. ASSUME NEW macs \in SUBSET MAC, markSeen(macs) PROVE ListsOK'
  <2>1. memory["conhecidos"] \cup macs \in SUBSET MAC
    BY DEF ListsOK, List
  <2>2. Loop \in Writer
    BY DEF Writer
  <2> QED BY <1>2, <2>1, <2>2, BeginType DEF markSeen
<1>3. ASSUME NEW w \in Writer, copyList(w) PROVE ListsOK'
  BY <1>3, ListOfType DEF copyList, ListsOK, SaveState
<1>4. ASSUME NEW w \in Writer, openFile(w) PROVE ListsOK'
  BY <1>4, ListOfType, RestTypes DEF openFile, ListsOK, SaveState
<1>5. ASSUME NEW w \in Writer, writeFile(w) PROVE ListsOK'
  <2>1. Written(file[ListOf(w)], save[w].list) \in FileState
    BY WrittenType, ListOfType DEF ListsOK, SaveState
  <2> QED BY <1>5, <2>1, RestTypes DEF writeFile, ListsOK
<1>6. ASSUME NEW w \in Writer, saveFails(w) PROVE ListsOK'
  BY <1>6, ListOfType, RestTypes DEF saveFails, ListsOK
<1>7. CASE restart
  BY <1>7, LoadedType, RestTypes DEF restart, ListsOK
<1>8. CASE UNCHANGED lists
  BY <1>8 DEF lists, ListsOK
<1> QED
  BY <1>1, <1>2, <1>3, <1>4, <1>5, <1>6, <1>7, <1>8
  DEF Next, saveStep, recordEvent, appendEvent, appendFails, vars

\* The two lists and their files keep their shape (trust.go, inventory.go).
THEOREM ListsTyped == Spec => []ListsOK
<1>1. Init => ListsOK
  BY RestTypes DEF Init, ListsOK
<1>2. ListsOK /\ [Next]_vars => ListsOK'
  BY ListsStep
<1> QED BY <1>1, <1>2, PTL DEF Spec

-----------------------------------------------------------------------------
(* Saves *)

\* Where no save was overlapped or failed, there is at most one under way, it has
\* copied what the memory has, it writes to an empty file, and without one the file
\* has what the memory has.
SavedInv ==
  \A l \in List \ disturbed :
    /\ \A v, w \in Saving(l) : v = w
    /\ Saving(l) = {} => Loaded(file[l]) = memory[l]
    /\ \A w \in Saving(l) :
         /\ save[w].phase \in {"copied", "truncated"} => save[w].list = memory[l]
         /\ save[w].phase = "truncated" => file[l].length = 0

\* A change begins a save that is alone, or marks the list as disturbed (setTrusted,
\* markSeen).
LEMMA BeginSaved ==
  ASSUME ListsOK, SavedInv, NEW w \in Writer, NEW list \in SUBSET MAC, Begin(w, list)
  PROVE  SavedInv'
<1> DEFINE l == ListOf(w)
<1>1. l \in List
  BY ListOfType
<1>2. Saving(l)' = Saving(l) \cup {w}
  BY DEF Begin, Saving, ListsOK, Idle, SaveState
<1>3. save'[w].phase = "changed"
  BY DEF Begin, ListsOK, SaveState
<1>4. ASSUME NEW k \in List \ {l} PROVE Saving(k)' = Saving(k)
  BY <1>4 DEF Begin, Saving, ListsOK
<1>5. CASE Saving(l) = {}
  BY <1>1, <1>2, <1>3, <1>4, <1>5 DEF SavedInv, Begin, Saving, ListsOK
<1>6. CASE Saving(l) # {}
  BY <1>1, <1>4, <1>6 DEF SavedInv, Begin, Saving, ListsOK
<1> QED BY <1>5, <1>6

\* Every step of a save, a failure and a restart keep the agreement of memory and
\* file (saveTrusted, saveKnownDevices, loadTrusted, loadKnownDevices).
LEMMA SavedStep == ListsOK /\ SavedInv /\ [Next]_vars => SavedInv'
<1> SUFFICES ASSUME ListsOK, SavedInv, [Next]_vars PROVE SavedInv'
  OBVIOUS
<1>1. ASSUME NEW h \in Handler, NEW mac \in MAC, NEW value \in BOOLEAN,
             setTrusted(h, mac, value)
      PROVE  SavedInv'
  <2> DEFINE trusted == memory["confiaveis"]
             list == IF value THEN trusted \cup {mac} ELSE trusted \ {mac}
  <2>1. list \in SUBSET MAC
    BY DEF ListsOK, List
  <2>2. h \in Writer /\ Begin(h, list)
    BY <1>1 DEF setTrusted, Writer
  <2> QED BY <2>1, <2>2, BeginSaved
<1>2. ASSUME NEW macs \in SUBSET MAC, markSeen(macs) PROVE SavedInv'
  <2>1. memory["conhecidos"] \cup macs \in SUBSET MAC
    BY DEF ListsOK, List
  <2>2. Loop \in Writer
    BY DEF Writer
  <2> QED BY <1>2, <2>1, <2>2, BeginSaved DEF markSeen
<1>3. ASSUME NEW w \in Writer, copyList(w) PROVE SavedInv'
  <2>1. \A l \in List : Saving(l)' = Saving(l)
    BY <1>3 DEF copyList, Saving, ListsOK, SaveState, Idle
  <2> QED BY <1>3, <2>1, ListOfType DEF copyList, SavedInv, Saving, ListsOK, SaveState
<1>4. ASSUME NEW w \in Writer, openFile(w) PROVE SavedInv'
  <2>1. \A l \in List : Saving(l)' = Saving(l)
    BY <1>4 DEF openFile, Saving, ListsOK, SaveState, Idle
  <2>2. w \in Saving(ListOf(w))
    BY <1>4 DEF openFile, Saving, Idle
  <2> QED
    BY <1>4, <2>1, <2>2, ListOfType DEF openFile, SavedInv, Saving, ListsOK, SaveState, Empty
<1>5. ASSUME NEW w \in Writer, writeFile(w) PROVE SavedInv'
  <2> DEFINE l == ListOf(w)
  <2>1. l \in List /\ w \in Saving(l)
    BY <1>5, ListOfType DEF writeFile, Saving, Idle
  <2>2. Saving(l)' = Saving(l) \ {w} /\ \A k \in List \ {l} : Saving(k)' = Saving(k)
    BY <1>5 DEF writeFile, Saving, ListsOK
  <2>3. ASSUME l \notin disturbed PROVE Loaded(file'[l]) = memory[l] /\ Saving(l)' = {}
    <3>1. file[l].length = 0 /\ save[w].list = memory[l]
      BY <1>5, <2>1, <2>3 DEF writeFile, SavedInv
    <3>2. file'[l] = Written(file[l], memory[l])
      BY <1>5, <2>1, <3>1 DEF writeFile, ListsOK
    <3>3. Loaded(file'[l]) = memory[l]
      BY <2>1, <3>1, <3>2, WrittenLoads DEF ListsOK
    <3> QED BY <2>1, <2>2, <2>3, <3>3 DEF SavedInv
  <2> QED BY <1>5, <2>1, <2>2, <2>3 DEF writeFile, SavedInv, Saving, ListsOK
<1>6. ASSUME NEW w \in Writer, saveFails(w) PROVE SavedInv'
  <2>1. \A l \in List \ {ListOf(w)} : Saving(l)' = Saving(l)
    BY <1>6 DEF saveFails, Saving, ListsOK
  <2> QED BY <1>6, <2>1 DEF saveFails, SavedInv, Saving, ListsOK
<1>7. CASE restart
  <2>1. \A l \in List : Saving(l)' = {}
    BY <1>7 DEF restart, Saving
  <2> QED BY <1>7, <2>1 DEF restart, SavedInv
<1>8. CASE UNCHANGED lists
  BY <1>8 DEF lists, SavedInv, Saving
<1> QED
  BY <1>1, <1>2, <1>3, <1>4, <1>5, <1>6, <1>7, <1>8
  DEF Next, saveStep, recordEvent, appendEvent, appendFails, vars

\* Between saves a restart changes no list, unless saves overlapped or failed and none
\* has run alone since (saveTrusted, saveKnownDevices).
THEOREM SavedAlways == Spec => []SavedAtRest
<1>1. Init => SavedInv
  BY DEF Init, SavedInv, Saving, Loaded, Empty
<1>2. ListsOK /\ SavedInv /\ [Next]_vars => SavedInv'
  BY SavedStep
<1>3. SavedInv => SavedAtRest
  BY DEF SavedInv, SavedAtRest
<1> QED BY <1>1, <1>2, <1>3, ListsTyped, PTL DEF Spec

-----------------------------------------------------------------------------
(* The inventory *)

\* Only a failing write can disturb the inventory: it has one writer (inventory.go,
\* saveKnownDevices; monitoring.go, detectChanges).
Undisturbed == "conhecidos" \notin disturbed

\* While writes succeed, no save of the inventory overlaps another.
LEMMA UndisturbedStep ==
  ASSUME "write" \notin Fault
  PROVE  ListsOK /\ Undisturbed /\ [Next]_vars => Undisturbed'
<1> SUFFICES ASSUME ListsOK, Undisturbed, [Next]_vars PROVE Undisturbed'
  OBVIOUS
<1> USE DEF Undisturbed
<1>1. ASSUME NEW h \in Handler, NEW mac \in MAC, NEW value \in BOOLEAN,
             setTrusted(h, mac, value)
      PROVE  Undisturbed'
  BY <1>1, ProcessAssumption DEF setTrusted, Begin, ListOf
<1>2. ASSUME NEW macs \in SUBSET MAC, markSeen(macs) PROVE Undisturbed'
  BY <1>2, ProcessAssumption DEF markSeen, Begin, ListOf, Saving, Writer
<1>3. CASE restart
  BY <1>3 DEF restart
<1>4. CASE UNCHANGED disturbed
  BY <1>4
<1> QED
  BY <1>1, <1>2, <1>3, <1>4
  DEF Next, saveStep, copyList, openFile, writeFile, saveFails, recordEvent, appendEvent,
      appendFails, lists, vars

\* However many handlers save the trusted devices meanwhile, the inventory on the disk
\* is that of the memory whenever the loop is not saving it (saveKnownDevices).
THEOREM InventorySaved ==
  ASSUME "write" \notin Fault
  PROVE  Spec => [](Saving("conhecidos") = {} =>
                      Loaded(file["conhecidos"]) = memory["conhecidos"])
<1>1. Init => Undisturbed
  BY DEF Init, Undisturbed
<1>2. ListsOK /\ Undisturbed /\ [Next]_vars => Undisturbed'
  BY UndisturbedStep
<1>3. Undisturbed /\ SavedAtRest =>
        (Saving("conhecidos") = {} => Loaded(file["conhecidos"]) = memory["conhecidos"])
  BY DEF Undisturbed, SavedAtRest, List
<1> QED BY <1>1, <1>2, <1>3, ListsTyped, SavedAlways, PTL DEF Spec

-----------------------------------------------------------------------------
(* The lines a restart reads *)

\* Of a finite set of places, a later one has a higher rank.
LEMMA RankMonotone ==
  ASSUME NEW R \in SUBSET Nat, IsFiniteSet(R), NEW i \in R, NEW j \in R, i < j
  PROVE  Rank(i, R) < Rank(j, R)
<1> DEFINE A == {k \in R : k <= i}
           B == {k \in R : k <= j}
<1>1. IsFiniteSet(B) /\ A \in SUBSET B /\ A # B
  <2>1. i \in Nat /\ j \in Nat /\ \A k \in R : k \in Nat
    OBVIOUS
  <2>2. B \in SUBSET R /\ j \in B /\ j \notin A
    BY <2>1
  <2>3. \A k \in A : k \in B
    BY <2>1
  <2> QED BY <2>2, <2>3, FS_Subset
<1> HIDE DEF A, B
<1>2. Cardinality(A) <= Cardinality(B) /\ Cardinality(A) # Cardinality(B)
  BY <1>1, FS_Subset
<1>3. Cardinality(A) \in Nat /\ Cardinality(B) \in Nat
  BY <1>1, FS_Subset, FS_CardinalityType
<1> QED BY <1>2, <1>3 DEF A, B, Rank

\* A rank is at most the number of the places.
LEMMA RankBounds ==
  ASSUME NEW R \in SUBSET Nat, IsFiniteSet(R), NEW i \in R
  PROVE  Rank(i, R) \in 1 .. Cardinality(R)
<1> DEFINE A == {k \in R : k <= i}
<1>1. A \in SUBSET R /\ i \in A
  OBVIOUS
<1> HIDE DEF A
<1>2. IsFiniteSet(A) /\ Cardinality(A) <= Cardinality(R) /\ Cardinality(A) \in Nat
  BY <1>1, FS_Subset, FS_CardinalityType
<1>3. Cardinality(A) # 0
  BY <1>1, <1>2, FS_EmptySet
<1> QED BY <1>2, <1>3, FS_CardinalityType DEF A, Rank

\* Every rank up to that number is the rank of a place: there are as many.
LEMMA RankReaches ==
  ASSUME NEW R \in SUBSET Nat, IsFiniteSet(R), NEW k \in 1 .. Cardinality(R)
  PROVE  \E i \in R : Rank(i, R) = k
<1> DEFINE n == Cardinality(R)
           f == [i \in R |-> Rank(i, R)]
<1>1. n \in Nat
  BY FS_CardinalityType
<1>2. IsFiniteSet(1 .. n) /\ Cardinality(1 .. n) = n
  BY <1>1, FS_Interval
<1>3. f \in [R -> 1 .. n]
  BY RankBounds
<1>4. ASSUME NEW i \in R, NEW j \in R, f[i] = f[j] PROVE i = j
  <2>1. i < j \/ j < i \/ i = j
    OBVIOUS
  <2>2. Rank(i, R) \in Int /\ Rank(j, R) \in Int /\ Rank(i, R) = Rank(j, R)
    BY <1>1, <1>4, RankBounds
  <2> QED BY <2>1, <2>2, RankMonotone
<1>5. f \in Injection(R, 1 .. n)
  BY <1>3, <1>4 DEF Injection, IsInjective
<1>6. f \in Surjection(R, 1 .. n)
  BY <1>2, <1>5, FS_Injection
<1> QED BY <1>6 DEF Surjection

\* The readable lines of a file are some of its lines (loadHistory).
LEMMA ReadableLines ==
  ASSUME NEW E, NEW s \in Seq(E)
  PROVE  /\ readableLines(s) \in SUBSET Nat
         /\ readableLines(s) \subseteq 1 .. Len(s)
         /\ IsFiniteSet(readableLines(s))
         /\ Cardinality(readableLines(s)) \in Nat
<1>1. readableLines(s) \in SUBSET (1 .. Len(s)) /\ Len(s) \in Nat
  BY LenProperties DEF readableLines
<1>2. IsFiniteSet(1 .. Len(s))
  BY <1>1, FS_Interval
<1> QED BY <1>1, <1>2, FS_Subset, FS_CardinalityType

\* The lines of s at R, each of them, in their order.
InOrder(p, s, R) ==
  /\ \A k \in 1 .. Len(p) : Nth(k, R) \in R /\ p[k] = s[Nth(k, R)]
  /\ \A j, k \in 1 .. Len(p) : j < k => Nth(j, R) < Nth(k, R)
  /\ \A i \in R : \E k \in 1 .. Len(p) : Nth(k, R) = i

\* What a restart reads of a file are its readable lines, each of them, in their order
\* (loadHistory).
LEMMA Parsed ==
  ASSUME NEW E, NEW s \in Seq(E)
  PROVE  /\ parsed(s) \in Seq(E \ {Torn})
         /\ InOrder(parsed(s), s, readableLines(s))
<1> DEFINE R == readableLines(s)
           p == parsed(s)
           n == Cardinality(R)
<1>1. R \in SUBSET Nat /\ IsFiniteSet(R) /\ n \in Nat /\ R \subseteq DOMAIN s
  BY ReadableLines, LenProperties
<1>2. \A i \in R : s[i] \in E \ {Torn}
  BY ReadableLines, ElementOfSeq DEF readableLines, Readable
<1>3. p = [k \in 1 .. n |-> s[Nth(k, R)]]
  BY DEF parsed
<1> HIDE DEF p, R
<1>4. \A k \in 1 .. n : Nth(k, R) \in R /\ Rank(Nth(k, R), R) = k
  BY <1>1, RankReaches DEF Nth
<1>5. p \in Seq(E \ {Torn})
  <2>1. p \in [1 .. n -> E \ {Torn}]
    BY <1>2, <1>3, <1>4
  <2> QED BY <1>1, <2>1
<1>6. Len(p) = n
  BY <1>1, <1>3, <1>5, LenProperties
<1>7. ASSUME NEW j \in 1 .. n, NEW k \in 1 .. n, j < k PROVE Nth(j, R) < Nth(k, R)
  <2>1. Nth(j, R) \in Nat /\ Nth(k, R) \in Nat
    BY <1>1, <1>4
  <2>2. ASSUME Nth(k, R) < Nth(j, R) PROVE FALSE
    <3>1. Rank(Nth(k, R), R) < Rank(Nth(j, R), R)
      BY <1>1, <1>4, <2>2, RankMonotone
    <3> QED BY <1>4, <1>7, <3>1
  <2>3. Nth(k, R) # Nth(j, R)
    BY <1>4, <1>7
  <2> QED BY <2>1, <2>2, <2>3
<1>8. ASSUME NEW i \in R PROVE \E k \in 1 .. n : Nth(k, R) = i
  <2> DEFINE k == Rank(i, R)
             m == Nth(k, R)
  <2>1. k \in 1 .. n
    BY <1>1, RankBounds
  <2>2. m \in R /\ Rank(m, R) = k
    BY <1>4, <2>1
  <2>3. i \in Nat /\ m \in Nat
    BY <1>1, <2>2
  <2> HIDE DEF m
  <2>4. ASSUME m < i PROVE FALSE
    BY <1>1, <2>1, <2>2, <2>4, RankMonotone
  <2>5. ASSUME i < m PROVE FALSE
    BY <1>1, <2>1, <2>2, <2>5, RankMonotone
  <2> QED BY <2>1, <2>3, <2>4, <2>5 DEF m
<1> HIDE DEF n, p, R
<1>9. InOrder(p, s, R)
  BY <1>3, <1>4, <1>6, <1>7, <1>8 DEF InOrder
<1> QED BY <1>5, <1>9 DEF p, R

\* What is kept of a sequence is its end (recordEvent, loadHistory).
LEMMA LastOfSuffix ==
  ASSUME NEW E, NEW s \in Seq(E)
  PROVE  /\ LastOf(s) \in Seq(E)
         /\ Len(LastOf(s)) <= MaxHistory
         /\ \E d \in Nat :
              /\ Len(s) = Len(LastOf(s)) + d
              /\ \A i \in 1 .. Len(LastOf(s)) : LastOf(s)[i] = s[i + d]
              /\ d > 0 => Len(LastOf(s)) = MaxHistory
<1>1. Len(s) \in Nat /\ MaxHistory \in Nat \ {0}
  BY LenProperties, BoundAssumption
<1>2. CASE Len(s) <= MaxHistory
  <2>1. LastOf(s) = s
    BY <1>2 DEF LastOf
  <2>2. \A i \in 1 .. Len(s) : s[i] = s[i + 0]
    BY <1>1
  <2> QED BY <1>1, <1>2, <2>1, <2>2
<1>3. CASE Len(s) > MaxHistory
  <2> DEFINE d == Len(s) - MaxHistory
  <2>1. LastOf(s) = SubSeq(s, d + 1, Len(s)) /\ d \in Nat \ {0}
    BY <1>1, <1>3 DEF LastOf
  <2>2. \A i \in d + 1 .. Len(s) : s[i] \in E
    BY <1>1, <2>1, ElementOfSeq
  <2>3. /\ LastOf(s) \in Seq(E)
        /\ Len(LastOf(s)) = MaxHistory
        /\ \A i \in 1 .. MaxHistory : LastOf(s)[i] = s[(d + 1) + i - 1]
    BY <1>1, <2>1, <2>2, SubSeqProperties
  <2>4. \A i \in 1 .. MaxHistory : LastOf(s)[i] = s[i + d]
    BY <1>1, <2>1, <2>3
  <2>5. Len(s) = Len(LastOf(s)) + d /\ Len(LastOf(s)) <= MaxHistory
    BY <1>1, <2>3
  <2> HIDE DEF d
  <2> QED BY <2>1, <2>3, <2>4, <2>5
<1> QED BY <1>1, <1>2, <1>3

\* What is kept of a sequence was in it (recordEvent, loadHistory).
LEMMA LastOfRange ==
  ASSUME NEW E, NEW s \in Seq(E)
  PROVE  LastOf(s) \in Seq(E) /\ Range(LastOf(s)) \subseteq Range(s)
<1> DEFINE t == LastOf(s)
<1>1. t \in Seq(E)
  BY LastOfSuffix
<1>2. PICK d \in Nat : Len(s) = Len(t) + d /\ \A i \in 1 .. Len(t) : t[i] = s[i + d]
  BY LastOfSuffix
<1> HIDE DEF t
<1>3. Len(t) \in Nat /\ DOMAIN t = 1 .. Len(t) /\ DOMAIN s = 1 .. Len(s)
  BY <1>1, LenProperties
<1>4. \A i \in DOMAIN t : i + d \in DOMAIN s /\ t[i] = s[i + d]
  BY <1>2, <1>3
<1>5. Range(t) \subseteq Range(s)
  BY <1>4 DEF Range
<1> QED BY <1>1, <1>5 DEF t

\* What a restart reads is in the file, and all that is readable in it (loadHistory).
LEMMA ParsedRange ==
  ASSUME NEW E, NEW s \in Seq(E)
  PROVE  parsed(s) \in Seq(E \ {Torn}) /\ Range(parsed(s)) = Range(s) \ {Torn}
<1> DEFINE p == parsed(s)
           R == readableLines(s)
<1>1. p \in Seq(E \ {Torn})
  BY Parsed
<1>2. /\ \A k \in 1 .. Len(p) : Nth(k, R) \in R /\ p[k] = s[Nth(k, R)]
      /\ \A i \in R : \E k \in 1 .. Len(p) : Nth(k, R) = i
  <2>1. InOrder(p, s, R)
    BY Parsed
  <2> QED BY <2>1 DEF InOrder
<1>3. DOMAIN p = 1 .. Len(p)
  BY <1>1, LenProperties
<1>4. \A i : i \in R <=> i \in DOMAIN s /\ s[i] # Torn
  BY DEF readableLines, Readable
<1> HIDE DEF p, R
<1>5. ASSUME NEW e \in Range(p) PROVE e \in Range(s) \ {Torn}
  BY <1>2, <1>3, <1>4, <1>5 DEF Range
<1>6. ASSUME NEW e \in Range(s) \ {Torn} PROVE e \in Range(p)
  <2>1. PICK i \in DOMAIN s : e = s[i]
    BY <1>6 DEF Range
  <2>2. i \in R
    BY <1>4, <1>6, <2>1
  <2>3. PICK k \in 1 .. Len(p) : Nth(k, R) = i
    BY <1>2, <2>2
  <2>4. p[k] = e
    BY <1>2, <2>1, <2>3
  <2> QED BY <1>3, <2>4 DEF Range
<1> QED BY <1>1, <1>5, <1>6 DEF p

-----------------------------------------------------------------------------
(* The history *)

\* A step on a list leaves the history alone; the others are these (history.go).
LEMMA EventsNext ==
  ASSUME [Next]_vars
  PROVE  \/ \E r \in Recorder : recordEvent(r) \/ appendEvent(r) \/ appendFails(r)
         \/ restart
         \/ UNCHANGED events /\ (UNCHANGED changes \/ Counted)
<1>1. ASSUME NEW h \in Handler, NEW mac \in MAC, NEW value \in BOOLEAN,
             setTrusted(h, mac, value)
      PROVE  UNCHANGED events /\ Counted
  BY <1>1 DEF setTrusted, Begin
<1>2. ASSUME NEW macs \in SUBSET MAC, markSeen(macs) PROVE UNCHANGED events /\ Counted
  BY <1>2 DEF markSeen, Begin
<1>3. ASSUME NEW w \in Writer, saveStep(w) PROVE UNCHANGED <<events, changes>>
  BY <1>3 DEF saveStep, copyList, openFile, writeFile, saveFails
<1> QED BY <1>1, <1>2, <1>3 DEF Next, vars

\* A counted change is within the bound.
LEMMA CountedType ==
  ASSUME changes \in 0 .. MaxChanges, Counted
  PROVE  changes' \in 1 .. MaxChanges /\ changes' = changes + 1
  BY BoundAssumption DEF Counted

\* What a restart reads into memory are events (loadHistory).
LEMMA LoadedHistory ==
  ASSUME TypeOK
  PROVE  LastOf(parsed(historyFile)) \in Seq(1 .. MaxChanges)
<1>1. parsed(historyFile) \in Seq((1 .. MaxChanges \cup {Torn}) \ {Torn})
  BY Parsed DEF TypeOK
<1>2. LastOf(parsed(historyFile)) \in Seq((1 .. MaxChanges \cup {Torn}) \ {Torn})
  BY <1>1, LastOfSuffix
<1> QED BY <1>2, SeqMonotonic

\* Every step keeps the types (trust.go, inventory.go, history.go).
LEMMA TypeStep == TypeOK /\ [Next]_vars => TypeOK'
<1> SUFFICES ASSUME TypeOK, [Next]_vars PROVE TypeOK'
  OBVIOUS
<1>0. ListsOK'
  BY ListsStep DEF TypeOK
<1>1. ASSUME NEW r \in Recorder, recordEvent(r) PROVE TypeOK'
  <2>1. changes' \in 1 .. MaxChanges
    BY <1>1, CountedType DEF TypeOK, recordEvent
  <2>2. Append(historyInMemory, changes') \in Seq(1 .. MaxChanges)
    BY <2>1, AppendProperties DEF TypeOK
  <2>3. historyInMemory' \in Seq(1 .. MaxChanges)
    BY <1>1, <2>2, LastOfSuffix DEF recordEvent
  <2>4. record' \in [Recorder -> 0 .. MaxChanges]
    BY <1>1, <2>1 DEF TypeOK, recordEvent
  <2> QED BY <1>0, <1>1, <2>1, <2>3, <2>4 DEF TypeOK, recordEvent
<1>2. ASSUME NEW r \in Recorder, appendEvent(r) PROVE TypeOK'
  <2>1. record[r] \in 1 .. MaxChanges \cup {Torn}
    BY <1>2 DEF TypeOK, appendEvent
  <2>2. historyFile' \in Seq(1 .. MaxChanges \cup {Torn})
    BY <1>2, <2>1, AppendProperties DEF TypeOK, appendEvent
  <2>3. record' \in [Recorder -> 0 .. MaxChanges]
    BY <1>2, BoundAssumption DEF TypeOK, appendEvent
  <2> QED BY <1>0, <1>2, <2>2, <2>3 DEF TypeOK, appendEvent
<1>3. ASSUME NEW r \in Recorder, appendFails(r) PROVE TypeOK'
  <2>1. failed' \subseteq 1 .. MaxChanges
    <3>1. record[r] \in 1 .. MaxChanges
      BY <1>3 DEF TypeOK, appendFails
    <3> QED BY <1>3, <3>1 DEF TypeOK, appendFails
  <2>2. historyFile' \in Seq(1 .. MaxChanges \cup {Torn}) /\ halfLine' \in BOOLEAN
    <3>1. Append(historyFile, Torn) \in Seq(1 .. MaxChanges \cup {Torn})
      BY AppendProperties DEF TypeOK
    <3>2. CASE UNCHANGED <<historyFile, halfLine>>
      BY <3>2 DEF TypeOK
    <3>3. CASE halfLine' = TRUE /\ historyFile' \in {historyFile, Append(historyFile, Torn)}
      BY <3>1, <3>3 DEF TypeOK
    <3> QED BY <1>3, <3>2, <3>3 DEF appendFails
  <2>3. record' \in [Recorder -> 0 .. MaxChanges]
    BY <1>3, BoundAssumption DEF TypeOK, appendFails
  <2> QED BY <1>0, <1>3, <2>1, <2>2, <2>3 DEF TypeOK, appendFails
<1>4. CASE restart
  <2>1. historyInMemory' \in Seq(1 .. MaxChanges)
    BY <1>4, LoadedHistory DEF restart
  <2>2. record' \in [Recorder -> 0 .. MaxChanges]
    BY <1>4, BoundAssumption DEF restart
  <2> QED BY <1>0, <1>4, <2>1, <2>2 DEF TypeOK, restart
<1>5. CASE UNCHANGED events /\ (UNCHANGED changes \/ Counted)
  <2>1. changes' \in 0 .. MaxChanges
    BY <1>5, CountedType DEF TypeOK
  <2> QED BY <1>0, <1>5, <2>1 DEF TypeOK, events
<1> QED BY <1>1, <1>2, <1>3, <1>4, <1>5, EventsNext

\* The program starts with the types (main.go, main).
LEMMA InitType == Init => TypeOK
<1> SUFFICES ASSUME Init PROVE TypeOK
  OBVIOUS
<1>1. ListsOK
  BY RestTypes DEF Init, ListsOK
<1>2. historyInMemory \in Seq(1 .. MaxChanges)
  BY EmptySeq DEF Init
<1>3. historyFile \in Seq(1 .. MaxChanges \cup {Torn})
  BY EmptySeq DEF Init
<1>4. record \in [Recorder -> 0 .. MaxChanges] /\ changes \in 0 .. MaxChanges
  BY BoundAssumption DEF Init
<1> QED BY <1>1, <1>2, <1>3, <1>4 DEF Init, TypeOK

\* Memory, files and what is under way keep their shapes (trust.go, inventory.go,
\* history.go).
THEOREM TypeCorrect == Spec => []TypeOK
<1>1. Init => TypeOK
  BY InitType
<1>2. TypeOK /\ [Next]_vars => TypeOK'
  BY TypeStep
<1> QED BY <1>1, <1>2, PTL DEF Spec

-----------------------------------------------------------------------------
(* The memory is on the disk *)

\* The members of a sequence are of its set.
LEMMA RangeOfEvents ==
  ASSUME NEW E, NEW s \in Seq(E)
  PROVE  Range(s) \subseteq E
  BY LenProperties DEF Range

\* One more element is one more at most.
LEMMA OneMore ==
  ASSUME NEW S, NEW T, NEW x, IsFiniteSet(S), T \subseteq S \cup {x}
  PROVE  Cardinality(T) \in Nat /\ Cardinality(T) <= Cardinality(S) + 1
<1>1. IsFiniteSet(S \cup {x}) /\ Cardinality(S) \in Nat
  BY FS_AddElement, FS_CardinalityType
<1>2. Cardinality(S \cup {x}) \in {Cardinality(S), Cardinality(S) + 1}
  BY FS_AddElement
<1>3. IsFiniteSet(T) /\ Cardinality(T) <= Cardinality(S \cup {x})
  BY <1>1, FS_Subset
<1>4. Cardinality(T) \in Nat
  BY <1>3, FS_CardinalityType
<1> QED BY <1>1, <1>2, <1>3, <1>4

\* The sets that MemoryOnDisk counts are finite.
LEMMA CountedSets ==
  ASSUME TypeOK
  PROVE  /\ IsFiniteSet(Missing) /\ Cardinality(Missing) \in Nat
         /\ IsFiniteSet(HalfLines) /\ Cardinality(HalfLines) \in Nat
<1>1. Missing \in SUBSET (1 .. MaxChanges)
  BY RangeOfEvents DEF TypeOK, Missing, InMemory
<1>2. HalfLines \in SUBSET (1 .. Len(historyFile)) /\ Len(historyFile) \in Nat
  BY LenProperties DEF TypeOK, HalfLines
<1>3. IsFiniteSet(1 .. MaxChanges) /\ IsFiniteSet(1 .. Len(historyFile))
  BY <1>2, FS_Interval, BoundAssumption
<1> QED BY <1>1, <1>2, <1>3, FS_Subset, FS_CardinalityType

\* What an appended line changes.
LEMMA Appended ==
  ASSUME NEW E, NEW s \in Seq(E), NEW x \in E
  PROVE  /\ Append(s, x) \in Seq(E)
         /\ Range(Append(s, x)) = Range(s) \cup {x}
         /\ DOMAIN Append(s, x) = DOMAIN s \cup {Len(s) + 1}
         /\ \A i \in DOMAIN s : Append(s, x)[i] = s[i]
         /\ Append(s, x)[Len(s) + 1] = x
<1> DEFINE t == Append(s, x)
           n == Len(s)
<1>1. n \in Nat /\ DOMAIN s = 1 .. n
  BY LenProperties
<1>2. /\ t \in Seq(E) /\ Len(t) = n + 1
      /\ \A i \in 1 .. n : t[i] = s[i]
      /\ t[n + 1] = x
  BY AppendProperties
<1> HIDE DEF t, n
<1>3. DOMAIN t = 1 .. n + 1
  BY <1>2, LenProperties
<1>4. 1 .. n + 1 = (1 .. n) \cup {n + 1}
  BY <1>1
<1>5. Range(t) = Range(s) \cup {x}
  <2>1. ASSUME NEW e \in Range(t) PROVE e \in Range(s) \cup {x}
    BY <1>1, <1>2, <1>3, <1>4, <2>1 DEF Range
  <2>2. ASSUME NEW e \in Range(s) PROVE e \in Range(t)
    BY <1>1, <1>2, <1>3, <1>4, <2>2 DEF Range
  <2>3. x \in Range(t)
    BY <1>1, <1>2, <1>3, <1>4 DEF Range
  <2> QED BY <2>1, <2>2, <2>3
<1> QED BY <1>1, <1>2, <1>3, <1>4, <1>5 DEF t, n

\* Fewer missing events, or the same, are paid for as before.
LEMMA PaysOn ==
  ASSUME TypeOK, HalfLinePays,
         Missing' \subseteq Missing, HalfLines' = HalfLines, halfLine' => halfLine
  PROVE  HalfLinePays'
<1>1. Cardinality(Missing') <= Cardinality(Missing)
  BY CountedSets, FS_Subset
<1>2. Cardinality(Missing) \in Nat /\ Cardinality(HalfLines) \in Nat
  BY CountedSets
<1>3. Cardinality(Missing') \in Nat
  BY CountedSets, FS_Subset, FS_CardinalityType
<1> QED BY <1>1, <1>3, <1>2 DEF HalfLinePays, TypeOK

\* Every step keeps the half line from having cost an event before its time (history.go,
\* recordEvent, loadHistory).
LEMMA PaysStep == MemoryInv /\ [Next]_vars => HalfLinePays'
<1> SUFFICES ASSUME MemoryInv, [Next]_vars PROVE HalfLinePays'
  OBVIOUS
<1>0. TypeOK /\ HalfLinePays
  BY DEF MemoryInv
<1>1. ASSUME NEW r \in Recorder, recordEvent(r) PROVE HalfLinePays'
  <2> DEFINE s == Append(historyInMemory, changes')
  <2>1. changes' \in 1 .. MaxChanges
    BY <1>0, <1>1, CountedType DEF TypeOK, recordEvent
  <2>2. s \in Seq(1 .. MaxChanges) /\ Range(s) = InMemory \cup {changes'}
    <3>1. PICK E : E = 1 .. MaxChanges
      OBVIOUS
    <3>2. historyInMemory \in Seq(E) /\ changes' \in E
      BY <1>0, <2>1, <3>1 DEF TypeOK
    <3>3. s \in Seq(E) /\ Range(s) = InMemory \cup {changes'}
      BY <3>2, Appended DEF InMemory
    <3> QED BY <3>1, <3>3
  <2>3. InMemory' \subseteq InMemory \cup {changes'}
    BY <1>1, <2>2, LastOfRange DEF recordEvent, InMemory
  <2>4. Range(record') = (Range(record) \ {0}) \cup Range(record') /\ changes' \in Range(record')
    <3>1. \A q \in Recorder : record[q] # 0 => record'[q] = record[q]
      BY <1>0, <1>1 DEF TypeOK, recordEvent
    <3>2. record'[r] = changes'
      BY <1>0, <1>1 DEF TypeOK, recordEvent
    <3>3. DOMAIN record = Recorder /\ DOMAIN record' = Recorder
      BY <1>0, <1>1 DEF TypeOK, recordEvent
    <3> QED BY <3>1, <3>2, <3>3 DEF Range
  <2>5. 0 \notin InMemory
    <3>1. historyInMemory \in Seq(1 .. MaxChanges)
      BY <1>0 DEF TypeOK
    <3>2. InMemory \subseteq 1 .. MaxChanges
      BY <3>1, RangeOfEvents DEF InMemory
    <3> QED BY <3>2
  <2>6. Missing' \subseteq Missing /\ HalfLines' = HalfLines /\ halfLine' = halfLine
    <3>1. OnDisk' = OnDisk /\ failed' = failed /\ HalfLines' = HalfLines /\ halfLine' = halfLine
      BY <1>1 DEF recordEvent, OnDisk, HalfLines
    <3> QED BY <2>3, <2>4, <2>5, <3>1 DEF Missing
  <2> QED BY <1>0, <2>6, PaysOn
<1>2. ASSUME NEW r \in Recorder, appendEvent(r) PROVE HalfLinePays'
  <2>1. /\ record[r] \in 1 .. MaxChanges /\ record[r] # Torn
        /\ Range(record) \subseteq Range(record') \cup {record[r]}
    BY <1>0, <1>2, LineAssumption, BoundAssumption DEF TypeOK, appendEvent, Range
  <2>2. InMemory' = InMemory /\ failed' = failed /\ halfLine' = FALSE
    BY <1>2 DEF appendEvent, InMemory
  <2>3. CASE halfLine
    <3>1. HalfLines' = HalfLines /\ OnDisk' = OnDisk
      BY <1>2, <2>3 DEF appendEvent, HalfLines, OnDisk
    <3>2. Missing' \subseteq Missing \cup {record[r]}
      BY <2>1, <2>2, <3>1 DEF Missing
    <3>3. Cardinality(Missing') \in Nat /\ Cardinality(Missing') <= Cardinality(Missing) + 1
      BY <1>0, <3>2, CountedSets, OneMore
    <3> QED BY <1>0, <2>2, <2>3, <3>1, <3>3, CountedSets DEF HalfLinePays
  <2>4. CASE ~ halfLine
    <3> DEFINE E == 1 .. MaxChanges \cup {Torn}
               s == Append(historyFile, record[r])
    <3>1. historyFile \in Seq(E) /\ record[r] \in E
      BY <1>0, <2>1 DEF TypeOK
    <3>2. /\ Range(s) = Range(historyFile) \cup {record[r]}
          /\ DOMAIN s = DOMAIN historyFile \cup {Len(historyFile) + 1}
          /\ \A i \in DOMAIN historyFile : s[i] = historyFile[i]
          /\ s[Len(historyFile) + 1] = record[r]
      BY <3>1, Appended
    <3>3. historyFile' = s
      BY <1>2, <2>4 DEF appendEvent
    <3>4. OnDisk' = OnDisk \cup {record[r]} /\ HalfLines' = HalfLines
      BY <2>1, <3>2, <3>3 DEF OnDisk, HalfLines
    <3>5. Missing' \subseteq Missing
      BY <2>1, <2>2, <3>4 DEF Missing
    <3> QED BY <1>0, <2>2, <3>4, <3>5, PaysOn
  <2> QED BY <2>3, <2>4
<1>3. ASSUME NEW r \in Recorder, appendFails(r) PROVE HalfLinePays'
  <2>1. Range(record) \subseteq Range(record') \cup {record[r]}
    BY <1>0, <1>3, BoundAssumption DEF TypeOK, appendFails, Range
  <2>2. InMemory' = InMemory /\ failed' = failed \cup {record[r]}
    BY <1>3 DEF appendFails, InMemory
  <2>3. ASSUME OnDisk' = OnDisk PROVE Missing' \subseteq Missing
    BY <2>1, <2>2, <2>3 DEF Missing
  <2>4. CASE UNCHANGED <<historyFile, halfLine>>
    <3>1. OnDisk' = OnDisk /\ HalfLines' = HalfLines
      BY <2>4 DEF OnDisk, HalfLines
    <3> QED BY <1>0, <2>3, <2>4, <3>1, PaysOn
  <2>5. CASE halfLine /\ halfLine' = TRUE /\ historyFile' = historyFile
    <3>1. OnDisk' = OnDisk /\ HalfLines' = HalfLines
      BY <2>5 DEF OnDisk, HalfLines
    <3> QED BY <1>0, <2>3, <2>5, <3>1, PaysOn
  <2>6. CASE ~ halfLine /\ halfLine' = TRUE /\ historyFile' = Append(historyFile, Torn)
    <3> DEFINE E == 1 .. MaxChanges \cup {Torn}
               s == Append(historyFile, Torn)
               n == Len(historyFile) + 1
    <3>1. historyFile \in Seq(E) /\ Torn \in E
      BY <1>0 DEF TypeOK
    <3>2. /\ Range(s) = Range(historyFile) \cup {Torn}
          /\ DOMAIN s = DOMAIN historyFile \cup {n}
          /\ \A i \in DOMAIN historyFile : s[i] = historyFile[i]
          /\ s[n] = Torn
      BY <3>1, Appended
    <3>3. OnDisk' = OnDisk /\ HalfLines' = HalfLines \cup {n}
      BY <2>6, <3>2 DEF OnDisk, HalfLines
    <3>4. n \notin HalfLines
      BY <3>1, LenProperties DEF HalfLines
    <3>5. Cardinality(HalfLines') = Cardinality(HalfLines) + 1
      BY <1>0, <3>3, <3>4, CountedSets, FS_AddElement
    <3>6. Cardinality(Missing') \in Nat /\ Cardinality(Missing') <= Cardinality(Missing)
      BY <1>0, <2>3, <3>3, CountedSets, FS_Subset, FS_CardinalityType
    <3> QED BY <1>0, <2>6, <3>5, <3>6, CountedSets DEF HalfLinePays
  <2> QED BY <1>3, <2>4, <2>5, <2>6 DEF appendFails
<1>4. CASE restart
  <2> DEFINE E == 1 .. MaxChanges \cup {Torn}
             p == parsed(historyFile)
  <2>1. p \in Seq(E \ {Torn}) /\ Range(p) \subseteq OnDisk
    BY <1>0, ParsedRange DEF TypeOK, OnDisk
  <2>2. InMemory' \subseteq OnDisk
    BY <1>4, <2>1, LastOfRange DEF restart, InMemory
  <2>3. OnDisk' = OnDisk /\ HalfLines' = HalfLines /\ halfLine' = halfLine
    BY <1>4 DEF restart, OnDisk, HalfLines
  <2>4. Missing' \subseteq Missing
    BY <2>2, <2>3 DEF Missing
  <2> QED BY <1>0, <2>3, <2>4, PaysOn
<1>5. CASE UNCHANGED events
  <2>1. Missing' = Missing /\ HalfLines' = HalfLines /\ halfLine' = halfLine
    BY <1>5 DEF events, Missing, HalfLines, OnDisk, InMemory
  <2> QED BY <1>0, <2>1, PaysOn
<1> QED BY <1>1, <1>2, <1>3, <1>4, <1>5, EventsNext

\* What the dashboard shows is on the disk, on its way there or known to have failed;
\* each half line costs one event more and no other (history.go, recordEvent).
THEOREM MemoryKept == Spec => []MemoryOnDisk
<1>1. Init => MemoryInv
  <2> SUFFICES ASSUME Init PROVE HalfLinePays /\ TypeOK
    BY DEF MemoryInv
  <2>1. TypeOK
    BY InitType
  <2>2. InMemory = {} /\ HalfLines = {} /\ ~ halfLine
    BY DEF Init, InMemory, HalfLines, Range
  <2> QED BY <2>1, <2>2, FS_EmptySet DEF HalfLinePays, Missing
<1>2. MemoryInv /\ [Next]_vars => MemoryInv'
  BY TypeStep, PaysStep DEF MemoryInv
<1>3. MemoryInv => MemoryOnDisk
  BY CountedSets DEF MemoryInv, HalfLinePays, MemoryOnDisk, Missing
<1> QED BY <1>1, <1>2, <1>3, PTL DEF Spec

-----------------------------------------------------------------------------
(* The newest events are kept *)

\* Fewer than a few are a few.
LEMMA FewSubset ==
  ASSUME NEW S, S \subseteq 1 .. MaxChanges, NEW T, T \subseteq S, Few(S)
  PROVE  Few(T)
<1>1. IsFiniteSet(1 .. MaxChanges)
  BY FS_Interval, BoundAssumption
<1>2. IsFiniteSet(S)
  BY <1>1, FS_Subset
<1>3. IsFiniteSet(T) /\ Cardinality(T) <= Cardinality(S)
  BY <1>2, FS_Subset
<1>4. Cardinality(S) \in Nat /\ Cardinality(T) \in Nat /\ Cardinality(Recorder) \in Nat
  BY <1>2, <1>3, FS_CardinalityType, ProcessAssumption
<1> QED BY <1>3, <1>4 DEF Few

\* What the recorders but one have on their way are a few (recordEvent).
LEMMA OthersAreFew ==
  ASSUME NEW f, DOMAIN f = Recorder, NEW r \in Recorder,
         NEW S, S \subseteq {f[q] : q \in Recorder \ {r}}
  PROVE  Few(S)
<1> DEFINE Q == Recorder \ {r}
           T == {f[q] : q \in Q}
           g == [q \in Q |-> f[q]]
<1>1. IsFiniteSet(Q) /\ Cardinality(Q) = Cardinality(Recorder) - 1
  BY FS_RemoveElement, ProcessAssumption
<1>2. g \in Surjection(Q, T) /\ S \subseteq T
  BY DEF Surjection
<1> HIDE DEF Q, T, g
<1>3. IsFiniteSet(T) /\ Cardinality(T) <= Cardinality(Q)
  BY <1>1, <1>2, FS_Surjection
<1>4. IsFiniteSet(S) /\ Cardinality(S) <= Cardinality(T)
  BY <1>2, <1>3, FS_Subset
<1>5. /\ Cardinality(S) \in Nat /\ Cardinality(T) \in Nat /\ Cardinality(Q) \in Nat
      /\ Cardinality(Recorder) \in Nat
  BY <1>1, <1>3, <1>4, FS_CardinalityType, ProcessAssumption
<1> QED BY <1>1, <1>3, <1>4, <1>5 DEF Few

\* Nobody is a few, where somebody records.
LEMMA NoneAreFew ==
  ASSUME NEW r \in Recorder
  PROVE  Few({})
<1>1. Cardinality(Recorder) \in Nat /\ Cardinality({}) = 0
  BY FS_CardinalityType, FS_EmptySet, ProcessAssumption
<1>2. Cardinality(Recorder) # 0
  BY FS_EmptySet, ProcessAssumption
<1> QED BY <1>1, <1>2 DEF Few

\* Every line of a sequence of events is readable.
LEMMA EventsReadable ==
  ASSUME NEW s \in Seq(1 .. MaxChanges)
  PROVE  /\ readableLines(s) = 1 .. Len(s)
         /\ \A i \in Nat : After(s, i) = {s[j] : j \in i + 1 .. Len(s)}
         /\ \A i \in 1 .. Len(s) : s[i] \in 1 .. MaxChanges
<1>1. DOMAIN s = 1 .. Len(s) /\ \A i \in 1 .. Len(s) : s[i] \in 1 .. MaxChanges
  BY LenProperties
<1>2. Torn \notin 1 .. MaxChanges
  BY LineAssumption, BoundAssumption
<1>3. Len(s) \in Nat
  BY LenProperties
<1>4. readableLines(s) = 1 .. Len(s)
  BY <1>1, <1>2 DEF readableLines, Readable
<1>5. ASSUME NEW i \in Nat PROVE After(s, i) = {s[j] : j \in i + 1 .. Len(s)}
  <2>1. \A j \in i + 1 .. Len(s) : j \in 1 .. Len(s)
    BY <1>3
  <2>2. Torn \notin {s[j] : j \in i + 1 .. Len(s)}
    BY <1>1, <1>2, <2>1
  <2> QED BY <2>2 DEF After
<1> QED BY <1>1, <1>4, <1>5

\* What stands after a place of a sequence of events are events.
LEMMA AfterEvents ==
  ASSUME NEW s \in Seq(1 .. MaxChanges), NEW i \in Nat
  PROVE  After(s, i) \subseteq 1 .. MaxChanges
<1>1. Len(s) \in Nat
  BY LenProperties
<1>2. \A j \in i + 1 .. Len(s) : j \in 1 .. Len(s)
  BY <1>1
<1> QED BY <1>2, EventsReadable

\* No event stands twice in s.
Once(s) == \A i, j \in DOMAIN s : s[i] = s[j] => i = j

\* What is kept of a history nearly in order is in that order, and what is dropped is
\* older than all it keeps but a few (recordEvent, loadHistory).
LEMMA KeptInOrder ==
  ASSUME NEW s \in Seq(1 .. MaxChanges), Once(s), NearlyInOrder(s, {})
  PROVE  /\ Once(LastOf(s))
         /\ NearlyInOrder(LastOf(s), {})
         /\ \A e \in Range(s) \ Range(LastOf(s)) :
              /\ Len(LastOf(s)) = MaxHistory
              /\ Few({f \in Range(LastOf(s)) : f < e})
<1> DEFINE t == LastOf(s)
<1>1. t \in Seq(1 .. MaxChanges)
  BY LastOfSuffix
<1>2. PICK d \in Nat : /\ Len(s) = Len(t) + d
                       /\ \A i \in 1 .. Len(t) : t[i] = s[i + d]
                       /\ d > 0 => Len(t) = MaxHistory
  BY LastOfSuffix
<1> HIDE DEF t
<1>3. /\ DOMAIN s = 1 .. Len(s) /\ Len(s) \in Nat
      /\ DOMAIN t = 1 .. Len(t) /\ Len(t) \in Nat
  BY <1>1, LenProperties
<1>4. ASSUME NEW i \in DOMAIN t
      PROVE  i \in Nat /\ i + d \in DOMAIN s /\ t[i] = s[i + d]
  <2>1. i \in 1 .. Len(t) /\ i \in Nat
    BY <1>3
  <2>2. i + d \in 1 .. Len(s)
    BY <1>2, <1>3, <2>1
  <2> QED BY <1>2, <1>3, <2>1, <2>2
<1>5. Once(t)
  <2>1. SUFFICES ASSUME NEW i \in DOMAIN t, NEW j \in DOMAIN t, t[i] = t[j]
                 PROVE  i = j
    BY DEF Once
  <2>2. i + d = j + d
    BY <1>4, <2>1 DEF Once
  <2> QED BY <1>4, <2>2
<1>6. ASSUME NEW i \in 1 .. Len(t)
      PROVE  Few({e \in After(t, i) \cup {} : e < t[i]})
  <2> DEFINE S == {e \in After(s, i + d) \cup {} : e < s[i + d]}
             T == {e \in After(t, i) \cup {} : e < t[i]}
  <2>1. i + d \in 1 .. Len(s) /\ t[i] = s[i + d] /\ i \in Nat /\ i + d \in Nat
    BY <1>3, <1>4
  <2>2. Few(S)
    BY <2>1, EventsReadable DEF NearlyInOrder
  <2>3. ASSUME NEW e \in After(t, i) PROVE e \in After(s, i + d)
    <3>1. PICK j \in i + 1 .. Len(t) : e = t[j]
      BY <1>1, <2>1, <2>3, EventsReadable
    <3>2. j \in 1 .. Len(t) /\ j + d \in (i + d) + 1 .. Len(s)
      BY <1>2, <1>3, <2>1
    <3>3. e = s[j + d]
      BY <1>2, <3>1, <3>2
    <3> QED BY <2>1, <3>2, <3>3, EventsReadable
  <2>4. T \subseteq S
    BY <2>1, <2>3
  <2>5. S \subseteq 1 .. MaxChanges
    BY <2>1, AfterEvents
  <2> QED BY <2>2, <2>4, <2>5, FewSubset
<1>7. NearlyInOrder(t, {})
  BY <1>1, <1>6, EventsReadable DEF NearlyInOrder
<1>8. ASSUME NEW e \in Range(s) \ Range(t)
      PROVE  Len(t) = MaxHistory /\ Few({f \in Range(t) : f < e})
  <2>1. PICK k \in 1 .. Len(s) : e = s[k]
    BY <1>3 DEF Range
  <2>2. k <= d
    <3>1. SUFFICES ASSUME k > d PROVE FALSE
      BY <1>2, <1>3
    <3>2. k - d \in DOMAIN t /\ (k - d) + d = k
      BY <1>2, <1>3, <3>1
    <3>3. t[k - d] = e
      BY <1>4, <2>1, <3>2
    <3> QED BY <3>2, <3>3 DEF Range
  <2>3. d > 0 /\ k \in Nat
    BY <1>2, <1>3, <2>2
  <2> DEFINE S == {f \in After(s, k) \cup {} : f < s[k]}
             T == {f \in Range(t) : f < e}
  <2>4. Few(S)
    BY EventsReadable DEF NearlyInOrder
  <2>5. ASSUME NEW f \in Range(t) PROVE f \in After(s, k)
    <3>1. PICK i \in 1 .. Len(t) : f = t[i]
      BY <1>3, <2>5 DEF Range
    <3>2. i + d \in k + 1 .. Len(s) /\ f = s[i + d]
      BY <1>2, <1>3, <2>2, <2>3, <3>1
    <3> QED BY <2>3, <3>2, EventsReadable
  <2>6. T \subseteq S
    BY <2>1, <2>5
  <2>7. S \subseteq 1 .. MaxChanges
    BY <2>3, AfterEvents
  <2> QED BY <1>2, <2>3, <2>4, <2>6, <2>7, FewSubset
<1> QED BY <1>5, <1>7, <1>8 DEF t

\* A new event at the end of the memory disturbs no order (recordEvent).
LEMMA AppendInOrder ==
  ASSUME NEW s \in Seq(1 .. MaxChanges), Once(s), NearlyInOrder(s, {}),
         NEW x \in 1 .. MaxChanges, \A e \in Range(s) : e < x, NEW r \in Recorder
  PROVE  Once(Append(s, x)) /\ NearlyInOrder(Append(s, x), {})
<1> DEFINE t == Append(s, x)
           n == Len(s)
<1>1. n \in Nat /\ DOMAIN s = 1 .. n
  BY LenProperties
<1>2. /\ t \in Seq(1 .. MaxChanges) /\ Len(t) = n + 1
      /\ \A i \in 1 .. n : t[i] = s[i]
      /\ t[n + 1] = x
  <2>1. PICK E : E = 1 .. MaxChanges
    OBVIOUS
  <2>2. s \in Seq(E) /\ x \in E
    BY <2>1
  <2>3. t \in Seq(E) /\ Len(t) = n + 1 /\ (\A i \in 1 .. n : t[i] = s[i]) /\ t[n + 1] = x
    BY <2>2, AppendProperties
  <2> QED BY <2>1, <2>3
<1> HIDE DEF t
<1>3. DOMAIN t = 1 .. n + 1
  BY <1>2, LenProperties
<1>4. \A i \in 1 .. n : s[i] \in 1 .. MaxChanges /\ s[i] < x
  <2>1. \A i \in 1 .. n : s[i] \in Range(s)
    BY <1>1 DEF Range
  <2> QED BY <2>1, EventsReadable
<1> HIDE DEF n
<1>5. Once(t)
  <2>1. SUFFICES ASSUME NEW i \in 1 .. n + 1, NEW j \in 1 .. n + 1, t[i] = t[j]
                 PROVE  i = j
    BY <1>3 DEF Once
  <2>2. (i \in 1 .. n \/ i = n + 1) /\ (j \in 1 .. n \/ j = n + 1)
    BY <1>1
  <2>3. CASE i \in 1 .. n /\ j \in 1 .. n
    BY <1>1, <1>2, <2>1, <2>3 DEF Once
  <2>4. CASE i \in 1 .. n /\ j = n + 1
    BY <1>2, <1>4, <2>1, <2>4
  <2>5. CASE i = n + 1 /\ j \in 1 .. n
    BY <1>2, <1>4, <2>1, <2>5
  <2> QED BY <2>2, <2>3, <2>4, <2>5
<1>6. ASSUME NEW i \in 1 .. n + 1
      PROVE  Few({e \in After(t, i) \cup {} : e < t[i]})
  <2> DEFINE T == {e \in After(t, i) \cup {} : e < t[i]}
  <2>1. CASE i = n + 1
    <3>1. After(t, i) = {}
      <4>1. i + 1 .. n + 1 = {} /\ i \in Nat
        BY <1>1, <2>1
      <4> QED BY <1>2, <4>1, EventsReadable
    <3>2. T = {}
      BY <3>1
    <3> HIDE DEF T
    <3> QED BY <3>2, NoneAreFew DEF T
  <2>2. CASE i \in 1 .. n
    <3> DEFINE S == {e \in After(s, i) \cup {} : e < s[i]}
    <3>1. Few(S)
      BY <2>2, EventsReadable DEF NearlyInOrder, n
    <3>2. i \in Nat /\ t[i] = s[i] /\ s[i] \in 1 .. MaxChanges /\ s[i] < x
      BY <1>1, <1>2, <1>4, <2>2
    <3>3. ASSUME NEW e \in After(t, i) PROVE e \in After(s, i) \/ e = x
      <4>1. PICK j \in i + 1 .. n + 1 : e = t[j]
        BY <1>2, <3>2, <3>3, EventsReadable
      <4>2. CASE j = n + 1
        BY <1>2, <4>1, <4>2
      <4>3. CASE j # n + 1
        <5>1. j \in i + 1 .. n /\ j \in 1 .. n
          BY <1>1, <3>2, <4>3
        <5>2. e = s[j]
          BY <1>2, <4>1, <5>1
        <5> QED BY <3>2, <5>1, <5>2, EventsReadable DEF n
      <4> QED BY <4>2, <4>3
    <3>4. ~ x < s[i]
      BY <3>2
    <3>5. T \subseteq S
      BY <3>2, <3>3, <3>4
    <3>6. S \subseteq 1 .. MaxChanges
      BY <3>2, AfterEvents
    <3> QED BY <3>1, <3>5, <3>6, FewSubset
  <2> QED BY <1>1, <2>1, <2>2
<1>7. NearlyInOrder(t, {})
  BY <1>2, <1>6, EventsReadable DEF NearlyInOrder
<1> QED BY <1>5, <1>7 DEF t

\* The lines of the history.
Line == 1 .. MaxChanges \cup {Torn}

\* What stands after a place of the history file, and is readable, are events.
LEMMA AfterLines ==
  ASSUME NEW s \in Seq(Line), NEW i \in Nat
  PROVE  /\ After(s, i) \subseteq 1 .. MaxChanges
         /\ readableLines(s) = {j \in 1 .. Len(s) : s[j] \in 1 .. MaxChanges}
<1>1. Len(s) \in Nat /\ DOMAIN s = 1 .. Len(s) /\ \A j \in 1 .. Len(s) : s[j] \in Line
  BY LenProperties
<1>2. \A j \in i + 1 .. Len(s) : j \in 1 .. Len(s)
  BY <1>1
<1>3. After(s, i) \subseteq 1 .. MaxChanges
  BY <1>1, <1>2 DEF After, Line
<1>4. Torn \notin 1 .. MaxChanges
  BY LineAssumption, BoundAssumption
<1> QED BY <1>1, <1>3, <1>4 DEF readableLines, Readable, Line

\* No readable line stands twice in s.
ReadOnce(s) ==
  \A i, j \in DOMAIN s : s[i] = s[j] /\ Readable(s[i]) => i = j

\* A restart reads a file in the order of its lines (loadHistory).
LEMMA ParsedInOrder ==
  ASSUME NEW s \in Seq(Line), ReadOnce(s),
         NEW W \in SUBSET (1 .. MaxChanges), NearlyInOrder(s, W)
  PROVE  /\ parsed(s) \in Seq(1 .. MaxChanges)
         /\ Once(parsed(s))
         /\ NearlyInOrder(parsed(s), {})
<1> DEFINE p == parsed(s)
           R == readableLines(s)
<1>1. p \in Seq(1 .. MaxChanges)
  <2>1. p \in Seq(Line \ {Torn})
    BY Parsed
  <2>2. Line \ {Torn} \subseteq 1 .. MaxChanges
    BY DEF Line
  <2> QED BY <2>1, <2>2, SeqMonotonic
<1>2. InOrder(p, s, R)
  BY Parsed
<1>3. R = {j \in 1 .. Len(s) : s[j] \in 1 .. MaxChanges}
  BY AfterLines
<1> HIDE DEF p
<1>4. DOMAIN p = 1 .. Len(p) /\ Len(p) \in Nat /\ Len(s) \in Nat /\ DOMAIN s = 1 .. Len(s)
  BY <1>1, LenProperties
<1>5. Once(p)
  <2>1. SUFFICES ASSUME NEW i \in 1 .. Len(p), NEW j \in 1 .. Len(p), p[i] = p[j]
                 PROVE  i = j
    BY <1>4 DEF Once
  <2>2. /\ Nth(i, R) \in R /\ Nth(j, R) \in R
        /\ p[i] = s[Nth(i, R)] /\ p[j] = s[Nth(j, R)]
    BY <1>2 DEF InOrder
  <2>3. Nth(i, R) = Nth(j, R)
    BY <1>4, <2>1, <2>2 DEF ReadOnce, readableLines
  <2>4. ~ i < j
    BY <1>2, <1>3, <2>2, <2>3 DEF InOrder
  <2>5. ~ j < i
    BY <1>2, <1>3, <2>2, <2>3 DEF InOrder
  <2> QED BY <1>4, <2>4, <2>5
<1>6. ASSUME NEW i \in 1 .. Len(p)
      PROVE  Few({e \in After(p, i) \cup {} : e < p[i]})
  <2> DEFINE k == Nth(i, R)
             S == {e \in After(s, k) \cup W : e < s[k]}
             T == {e \in After(p, i) \cup {} : e < p[i]}
  <2>1. k \in R /\ p[i] = s[k]
    BY <1>2 DEF InOrder
  <2>2. k \in Nat /\ i \in Nat /\ p[i] \in 1 .. MaxChanges
    BY <1>3, <2>1
  <2>3. Few(S)
    BY <2>1 DEF NearlyInOrder
  <2>4. ASSUME NEW e \in After(p, i) PROVE e \in After(s, k)
    <3>1. PICK j \in i + 1 .. Len(p) : e = p[j]
      BY <1>1, <2>2, <2>4, EventsReadable
    <3>2. j \in 1 .. Len(p) /\ i < j
      BY <1>4, <2>2
    <3>3. Nth(j, R) \in R /\ e = s[Nth(j, R)] /\ k < Nth(j, R)
      BY <1>2, <3>1, <3>2 DEF InOrder
    <3>4. Nth(j, R) \in k + 1 .. Len(s)
      BY <1>3, <1>4, <2>2, <3>3
    <3>5. e # Torn
      BY <3>3 DEF readableLines, Readable
    <3> QED BY <3>3, <3>4, <3>5 DEF After
  <2>5. T \subseteq S
    BY <2>1, <2>4
  <2>6. S \subseteq 1 .. MaxChanges
    BY <2>2, AfterLines
  <2> QED BY <2>3, <2>5, <2>6, FewSubset
<1>7. NearlyInOrder(p, {})
  BY <1>1, <1>6, EventsReadable DEF NearlyInOrder
<1> QED BY <1>1, <1>5, <1>7 DEF p

\* HistoryInv as the lemmas above need it.
LEMMA HistoryParts ==
  ASSUME HistoryInv
  PROVE  /\ TypeOK
         /\ historyFile \in Seq(Line) /\ historyInMemory \in Seq(1 .. MaxChanges)
         /\ ReadOnce(historyFile) /\ Once(historyInMemory)
         /\ NearlyInOrder(historyFile, Pending) /\ NearlyInOrder(historyInMemory, {})
         /\ InMemory \cup OnDisk \cup Pending \subseteq 1 .. changes
         /\ OnDisk \cap Pending = {}
         /\ changes \in 0 .. MaxChanges
         /\ Pending \in SUBSET (1 .. MaxChanges)
<1>1. TypeOK /\ changes \in 0 .. MaxChanges
  BY DEF HistoryInv, TypeOK
<1>2. Pending \subseteq 1 .. changes
  BY DEF HistoryInv, EventsOnce
<1>3. Pending \subseteq 1 .. MaxChanges
  BY <1>1, <1>2, BoundAssumption
<1>4. historyFile \in Seq(Line) /\ historyInMemory \in Seq(1 .. MaxChanges)
  BY <1>1 DEF TypeOK, Line
<1>5. ReadOnce(historyFile) /\ Once(historyInMemory)
  BY DEF HistoryInv, EventsOnce, ReadOnce, Once
<1> QED
  BY <1>1, <1>3, <1>4, <1>5
  DEF HistoryInv, EventsOnce, AppendsNearlyInOrder, MemoryNearlyInOrder

\* A few that an event overtook are left when what comes after it gets no older.
LEMMA OrderKept ==
  ASSUME NEW s \in Seq(Line), NEW i \in readableLines(s), NEW W \in SUBSET (1 .. MaxChanges),
         Few({e \in After(s, i) \cup W : e < s[i]}),
         NEW A, \A e \in A : e < s[i] => e \in After(s, i) \cup W
  PROVE  Few({e \in A : e < s[i]})
<1> DEFINE S == {e \in After(s, i) \cup W : e < s[i]}
<1>1. i \in Nat
  BY AfterLines
<1>2. S \subseteq 1 .. MaxChanges
  BY <1>1, AfterLines
<1>3. {e \in A : e < s[i]} \subseteq S
  OBVIOUS
<1> QED BY <1>2, <1>3, FewSubset

\* An event is recorded in memory at the end, and is on its way (recordEvent).
LEMMA RecordStep ==
  ASSUME HistoryInv, TypeOK', NEW r \in Recorder, recordEvent(r)
  PROVE  HistoryInv'
<1> DEFINE s == Append(historyInMemory, changes')
<1>0. /\ changes' \in 1 .. MaxChanges /\ changes' = changes + 1 /\ changes \in 0 .. MaxChanges
      /\ historyFile' = historyFile /\ historyInMemory' = LastOf(s)
      /\ record \in [Recorder -> 0 .. MaxChanges]
      /\ record[r] = 0 /\ record' = [record EXCEPT ![r] = changes']
  BY HistoryParts, CountedType DEF TypeOK, recordEvent
<1>1. PICK x : x = changes'
  OBVIOUS
<1>2. /\ x \in 1 .. MaxChanges /\ x = changes + 1
      /\ \A e \in 1 .. changes : e < x /\ ~ x < e /\ e # x /\ e \in 1 .. changes'
      /\ x \in 1 .. changes'
  BY <1>0, <1>1
<1>3. Pending' = Pending \cup {x}
  <2>1. \A q \in Recorder : q # r => record'[q] = record[q]
    BY <1>0
  <2>2. record'[r] = x /\ record[r] = 0 /\ x # 0
    BY <1>0, <1>1, <1>2
  <2>3. DOMAIN record = Recorder /\ DOMAIN record' = Recorder
    BY <1>0
  <2> QED BY <2>1, <2>2, <2>3 DEF Pending, Range
<1>4. OnDisk' = OnDisk
  BY <1>0 DEF OnDisk
<1>5. s \in Seq(1 .. MaxChanges) /\ Range(s) = InMemory \cup {x}
  <2>1. PICK E : E = 1 .. MaxChanges
    OBVIOUS
  <2>2. historyInMemory \in Seq(E) /\ changes' \in E
    BY <1>0, <2>1, HistoryParts
  <2>3. s \in Seq(E) /\ Range(s) = InMemory \cup {changes'}
    BY <2>2, Appended DEF InMemory
  <2> QED BY <1>1, <2>1, <2>3
<1>6. Once(s) /\ NearlyInOrder(s, {})
  <2>1. \A e \in Range(historyInMemory) : e < changes'
    BY <1>1, <1>2, HistoryParts DEF InMemory
  <2> QED BY <1>0, <2>1, HistoryParts, AppendInOrder
<1>7. InMemory' \subseteq InMemory \cup {x}
  BY <1>0, <1>5, LastOfRange DEF InMemory
<1>8. EventsOnce'
  <2>1. InMemory' \cup OnDisk' \cup Pending' \subseteq 1 .. changes'
    BY <1>2, <1>3, <1>4, <1>7, HistoryParts
  <2>2. OnDisk' \cap Pending' = {}
    BY <1>2, <1>3, <1>4, HistoryParts
  <2>3. ASSUME NEW p \in Recorder, NEW q \in Recorder, record'[p] = record'[q], record'[p] # 0
        PROVE  p = q
    <3>1. \A z \in Recorder : record[z] # x
      <4>1. x \notin Pending
        BY <1>2, HistoryParts
      <4> QED BY <1>0, <1>2, <4>1 DEF Pending, Range
    <3>2. record'[p] = IF p = r THEN x ELSE record[p]
      BY <1>0, <1>1
    <3>3. record'[q] = IF q = r THEN x ELSE record[q]
      BY <1>0, <1>1
    <3> QED BY <2>3, <3>1, <3>2, <3>3 DEF HistoryInv, EventsOnce
  <2>4. Once(historyInMemory')
    BY <1>0, <1>5, <1>6, KeptInOrder
  <2> QED BY <1>0, <2>1, <2>2, <2>3, <2>4, HistoryParts DEF EventsOnce, ReadOnce, Once
<1>9. NearlyInOrder(historyFile, Pending \cup {x})
  <2>1. SUFFICES ASSUME NEW i \in readableLines(historyFile)
        PROVE  Few({e \in After(historyFile, i) \cup (Pending \cup {x}) : e < historyFile[i]})
    BY DEF NearlyInOrder
  <2>2. Few({e \in After(historyFile, i) \cup Pending : e < historyFile[i]})
    BY HistoryParts DEF NearlyInOrder
  <2>3. ~ x < historyFile[i]
    <3>1. historyFile[i] \in OnDisk
      BY DEF readableLines, Readable, OnDisk, Range
    <3> QED BY <1>2, <3>1, HistoryParts
  <2>4. historyFile \in Seq(Line) /\ Pending \in SUBSET (1 .. MaxChanges)
    BY HistoryParts
  <2> DEFINE A == After(historyFile, i) \cup (Pending \cup {x})
  <2>5. \A e \in A : e < historyFile[i] => e \in After(historyFile, i) \cup Pending
    BY <2>3
  <2> HIDE DEF A
  <2>6. Few({e \in A : e < historyFile[i]})
    BY <2>2, <2>4, <2>5, OrderKept
  <2> QED BY <2>6 DEF A
<1>10. NearlyInOrder(historyInMemory', {})
  BY <1>0, <1>5, <1>6, KeptInOrder
<1>11. ASSUME NEW e \in (OnDisk' \cup Pending') \ InMemory'
       PROVE  Len(historyInMemory') = MaxHistory /\ Few({f \in InMemory' : f < e})
  <2>1. CASE e \in Range(s)
    BY <1>0, <1>5, <1>6, <1>11, <2>1, KeptInOrder DEF InMemory
  <2>2. CASE e \notin Range(s)
    <3>1. e \in (OnDisk \cup Pending) \ InMemory /\ e \in 1 .. changes
      BY <1>3, <1>4, <1>5, <1>11, <2>2, HistoryParts
    <3>2. Len(historyInMemory) = MaxHistory /\ Few({f \in InMemory : f < e})
      BY <3>1 DEF HistoryInv, DroppedAreOld
    <3>3. Len(historyInMemory') = MaxHistory
      <4>1. Len(s) = MaxHistory + 1
        BY <1>0, <3>2, HistoryParts, AppendProperties
      <4>2. /\ Len(LastOf(s)) <= MaxHistory
            /\ \E d \in Nat : Len(s) = Len(LastOf(s)) + d
                              /\ (d > 0 => Len(LastOf(s)) = MaxHistory)
        BY <1>5, LastOfSuffix
      <4>3. Len(LastOf(s)) \in Nat
        BY <1>5, LastOfRange, LenProperties
      <4> QED BY <1>0, <4>1, <4>2, <4>3, BoundAssumption
    <3>4. {f \in InMemory' : f < e} \subseteq {f \in InMemory : f < e}
      BY <1>2, <1>7, <3>1
    <3>5. {f \in InMemory : f < e} \subseteq 1 .. MaxChanges
      <4>1. InMemory \subseteq 1 .. MaxChanges
        BY HistoryParts, RangeOfEvents DEF InMemory
      <4> QED BY <4>1
    <3> QED BY <3>2, <3>3, <3>4, <3>5, FewSubset
  <2> QED BY <2>1, <2>2
<1> QED
  BY <1>0, <1>3, <1>8, <1>9, <1>10, <1>11
  DEF HistoryInv, AppendsNearlyInOrder, MemoryNearlyInOrder, DroppedAreOld

\* What a recorder no longer has on its way is on nobody else's (recordEvent).
LEMMA PendingLess ==
  ASSUME HistoryInv, NEW r \in Recorder, record[r] # 0, record' = [record EXCEPT ![r] = 0]
  PROVE  /\ Pending' = Pending \ {record[r]}
         /\ record[r] \in Pending
         /\ Pending' \subseteq {record[q] : q \in Recorder \ {r}}
         /\ \A p, q \in Recorder : record'[p] = record'[q] /\ record'[p] # 0 => p = q
<1>1. record \in [Recorder -> 0 .. MaxChanges]
  BY HistoryParts DEF TypeOK
<1>2. DOMAIN record = Recorder /\ DOMAIN record' = Recorder
  BY <1>1
<1>3. \A q \in Recorder : record'[q] = IF q = r THEN 0 ELSE record[q]
  BY <1>1
<1>4. \A p, q \in Recorder : record[p] = record[q] /\ record[p] # 0 => p = q
  BY DEF HistoryInv, EventsOnce
<1> QED BY <1>2, <1>3, <1>4 DEF Pending, Range

\* The end of a file, or a torn line, is nobody's place (recordEvent).
LEMMA LineAdded ==
  ASSUME NEW s \in Seq(Line), NEW x \in Line
  PROVE  /\ \A i \in 1 .. Len(s) : After(Append(s, x), i) = After(s, i) \cup ({x} \ {Torn})
         /\ After(Append(s, x), Len(s) + 1) = {}
         /\ x = Torn => readableLines(Append(s, x)) = readableLines(s)
         /\ x # Torn => readableLines(Append(s, x)) = readableLines(s) \cup {Len(s) + 1}
         /\ \A i \in readableLines(s) : Append(s, x)[i] = s[i] /\ i \in 1 .. Len(s)
         /\ Append(s, x)[Len(s) + 1] = x
<1> DEFINE t == Append(s, x)
           n == Len(s)
<1>1. n \in Nat /\ DOMAIN s = 1 .. n
  BY LenProperties
<1>2. /\ t \in Seq(Line) /\ Len(t) = n + 1
      /\ \A i \in 1 .. n : t[i] = s[i]
      /\ t[n + 1] = x
  BY AppendProperties
<1> HIDE DEF t
<1>3. DOMAIN t = 1 .. n + 1
  BY <1>2, LenProperties
<1> HIDE DEF n
<1>4. ASSUME NEW i \in 1 .. n PROVE After(t, i) = After(s, i) \cup ({x} \ {Torn})
  <2>1. i + 1 .. n + 1 = (i + 1 .. n) \cup {n + 1} /\ \A j \in i + 1 .. n : j \in 1 .. n
    BY <1>1
  <2>2. {t[j] : j \in i + 1 .. n + 1} = {s[j] : j \in i + 1 .. n} \cup {x}
    BY <1>2, <2>1
  <2> QED BY <1>2, <2>2 DEF After, n
<1>5. After(t, n + 1) = {}
  <2>1. (n + 1) + 1 .. n + 1 = {}
    BY <1>1
  <2> QED BY <1>2, <2>1 DEF After
<1>6. /\ x = Torn => readableLines(t) = readableLines(s)
      /\ x # Torn => readableLines(t) = readableLines(s) \cup {n + 1}
  <2>1. 1 .. n + 1 = (1 .. n) \cup {n + 1}
    BY <1>1
  <2> QED BY <1>1, <1>2, <1>3, <2>1 DEF readableLines, Readable
<1>7. \A i \in readableLines(s) : t[i] = s[i] /\ i \in 1 .. n
  BY <1>1, <1>2 DEF readableLines
<1> QED BY <1>2, <1>4, <1>5, <1>6, <1>7 DEF t, n

\* An event that is on its way no longer, without a line or with a torn one, leaves the
\* rest in order (recordEvent).
LEMMA FailStep ==
  ASSUME HistoryInv, TypeOK', NEW r \in Recorder, record[r] # 0,
         record' = [record EXCEPT ![r] = 0],
         UNCHANGED <<historyInMemory, changes>>,
         historyFile' = historyFile \/ historyFile' = Append(historyFile, Torn)
  PROVE  HistoryInv'
<1>1. /\ Pending' \subseteq Pending
      /\ \A p, q \in Recorder : record'[p] = record'[q] /\ record'[p] # 0 => p = q
  BY PendingLess
<1>2. InMemory' = InMemory
  BY DEF InMemory
<1>3. /\ OnDisk' = OnDisk
      /\ readableLines(historyFile') = readableLines(historyFile)
      /\ \A i \in readableLines(historyFile) :
           historyFile'[i] = historyFile[i] /\ After(historyFile', i) = After(historyFile, i)
  <2>1. CASE historyFile' = historyFile
    BY <2>1 DEF OnDisk
  <2>2. CASE historyFile' = Append(historyFile, Torn)
    <3>1. historyFile \in Seq(Line) /\ Torn \in Line
      BY HistoryParts DEF Line
    <3>2. Range(historyFile') = Range(historyFile) \cup {Torn}
      BY <2>2, <3>1, Appended
    <3>3. readableLines(historyFile') = readableLines(historyFile)
      BY <2>2, <3>1, LineAdded
    <3>4. ASSUME NEW i \in readableLines(historyFile)
          PROVE  historyFile'[i] = historyFile[i] /\ After(historyFile', i) = After(historyFile, i)
      <4>1. i \in 1 .. Len(historyFile) /\ historyFile'[i] = historyFile[i]
        BY <2>2, <3>1, LineAdded
      <4>2. After(historyFile', i) = After(historyFile, i) \cup ({Torn} \ {Torn})
        BY <2>2, <3>1, <4>1, LineAdded
      <4> QED BY <4>1, <4>2
    <3> QED BY <3>2, <3>3, <3>4 DEF OnDisk
  <2> QED BY <2>1, <2>2
<1>4. ReadOnce(historyFile')
  BY <1>3, HistoryParts DEF ReadOnce, readableLines
<1>5. EventsOnce'
  BY <1>1, <1>2, <1>3, <1>4, HistoryParts DEF EventsOnce, ReadOnce, Once
<1>6. NearlyInOrder(historyFile', Pending')
  <2>1. SUFFICES ASSUME NEW i \in readableLines(historyFile)
        PROVE  Few({e \in After(historyFile, i) \cup Pending' : e < historyFile[i]})
    BY <1>3 DEF NearlyInOrder
  <2>2. Few({e \in After(historyFile, i) \cup Pending : e < historyFile[i]})
    BY HistoryParts DEF NearlyInOrder
  <2> QED BY <1>1, <2>2, HistoryParts, OrderKept
<1>7. DroppedAreOld'
  BY <1>1, <1>2, <1>3 DEF HistoryInv, DroppedAreOld
<1> QED
  BY <1>5, <1>6, <1>7, HistoryParts DEF HistoryInv, AppendsNearlyInOrder, MemoryNearlyInOrder

\* An appended event is before all that are on their way, which are a few (recordEvent).
LEMMA AppendStep ==
  ASSUME HistoryInv, TypeOK', NEW r \in Recorder, record[r] # 0,
         record' = [record EXCEPT ![r] = 0],
         UNCHANGED <<historyInMemory, changes>>,
         historyFile' = Append(historyFile, record[r])
  PROVE  HistoryInv'
<1> DEFINE n == Len(historyFile)
<1>1. PICK x : x = record[r]
  OBVIOUS
<1>2. /\ Pending' = Pending \ {x} /\ x \in Pending
      /\ Pending' \subseteq {record[q] : q \in Recorder \ {r}}
      /\ \A p, q \in Recorder : record'[p] = record'[q] /\ record'[p] # 0 => p = q
  BY <1>1, PendingLess
<1>3. historyFile \in Seq(Line) /\ x \in Line /\ x \in 1 .. MaxChanges /\ x # Torn
  BY <1>2, HistoryParts, LineAssumption, BoundAssumption DEF Line
<1>4. historyFile' = Append(historyFile, x)
  BY <1>1
<1>5. InMemory' = InMemory
  BY DEF InMemory
<1>6. OnDisk' = OnDisk \cup {x} /\ x \notin OnDisk
  BY <1>2, <1>3, <1>4, Appended, HistoryParts DEF OnDisk
<1>7. /\ readableLines(historyFile') = readableLines(historyFile) \cup {n + 1}
      /\ historyFile'[n + 1] = x /\ After(historyFile', n + 1) = {}
      /\ \A i \in readableLines(historyFile) :
           /\ historyFile'[i] = historyFile[i]
           /\ After(historyFile', i) = After(historyFile, i) \cup {x}
  BY <1>3, <1>4, LineAdded
<1>8. ReadOnce(historyFile')
  <2>1. \A i \in readableLines(historyFile) : historyFile[i] \in OnDisk
    BY DEF readableLines, Readable, OnDisk, Range
  <2>2. \A i, j \in readableLines(historyFile) : historyFile[i] = historyFile[j] => i = j
    BY HistoryParts DEF ReadOnce, readableLines
  <2>3. \A i, j \in readableLines(historyFile') : historyFile'[i] = historyFile'[j] => i = j
    <3>1. SUFFICES ASSUME NEW i \in readableLines(historyFile'),
                          NEW j \in readableLines(historyFile'),
                          historyFile'[i] = historyFile'[j]
                   PROVE  i = j
      OBVIOUS
    <3>2. CASE i \in readableLines(historyFile) /\ j \in readableLines(historyFile)
      BY <1>7, <2>2, <3>1, <3>2
    <3>3. CASE i \in readableLines(historyFile) /\ j = n + 1
      BY <1>6, <1>7, <2>1, <3>1, <3>3
    <3>4. CASE i = n + 1 /\ j \in readableLines(historyFile)
      BY <1>6, <1>7, <2>1, <3>1, <3>4
    <3> HIDE DEF n
    <3> QED BY <1>7, <3>2, <3>3, <3>4
  <2> QED BY <2>3 DEF ReadOnce, readableLines
<1>9. EventsOnce'
  BY <1>2, <1>5, <1>6, <1>8, HistoryParts DEF EventsOnce, ReadOnce, Once
<1>10. NearlyInOrder(historyFile', Pending')
  <2>1. ASSUME NEW i \in readableLines(historyFile)
        PROVE  Few({e \in (After(historyFile, i) \cup {x}) \cup Pending' : e < historyFile[i]})
    <3>1. Few({e \in After(historyFile, i) \cup Pending : e < historyFile[i]})
      BY HistoryParts DEF NearlyInOrder
    <3> DEFINE A == (After(historyFile, i) \cup {x}) \cup Pending'
    <3>2. \A e \in A : e < historyFile[i] => e \in After(historyFile, i) \cup Pending
      BY <1>2
    <3>3. historyFile \in Seq(Line) /\ Pending \in SUBSET (1 .. MaxChanges)
      BY HistoryParts
    <3> HIDE DEF A
    <3>4. Few({e \in A : e < historyFile[i]})
      BY <3>1, <3>2, <3>3, OrderKept
    <3> QED BY <3>4 DEF A
  <2>2. Few({e \in {} \cup Pending' : e < x})
    <3>1. DOMAIN record = Recorder
      BY HistoryParts DEF TypeOK
    <3>2. {e \in {} \cup Pending' : e < x} \subseteq {record[q] : q \in Recorder \ {r}}
      BY <1>2
    <3> QED BY <3>1, <3>2, OthersAreFew
  <2>3. ASSUME NEW i \in readableLines(historyFile')
        PROVE  Few({e \in After(historyFile', i) \cup Pending' : e < historyFile'[i]})
    <3>1. CASE i \in readableLines(historyFile)
      BY <1>7, <2>1, <3>1
    <3>2. CASE i = n + 1
      BY <1>7, <2>2, <3>2
    <3> QED BY <1>7, <3>1, <3>2
  <2> QED BY <2>3 DEF NearlyInOrder
<1>11. DroppedAreOld'
  BY <1>2, <1>5, <1>6 DEF HistoryInv, DroppedAreOld
<1> QED
  BY <1>9, <1>10, <1>11, HistoryParts DEF HistoryInv, AppendsNearlyInOrder, MemoryNearlyInOrder

\* What was on its way is lost in a restart; the memory begins with the end of the file
\* (loadHistory).
LEMMA RestartStep ==
  ASSUME HistoryInv, TypeOK', restart
  PROVE  HistoryInv'
<1> DEFINE s == parsed(historyFile)
<1>1. /\ historyFile' = historyFile /\ changes' = changes
      /\ historyInMemory' = LastOf(s)
      /\ record' = [r \in Recorder |-> 0]
  BY DEF restart
<1>2. s \in Seq(1 .. MaxChanges) /\ Once(s) /\ NearlyInOrder(s, {})
  BY HistoryParts, ParsedInOrder
<1>3. Range(s) = OnDisk
  BY HistoryParts, ParsedRange DEF OnDisk
<1> HIDE DEF s
<1>4. OnDisk' = OnDisk /\ Pending' = {}
  BY <1>1 DEF OnDisk, Pending, Range
<1>5. InMemory' \subseteq OnDisk
  BY <1>1, <1>2, <1>3, LastOfRange DEF InMemory
<1>6. Once(historyInMemory') /\ NearlyInOrder(historyInMemory', {})
  BY <1>1, <1>2, KeptInOrder
<1>7. EventsOnce'
  BY <1>1, <1>4, <1>5, <1>6, HistoryParts DEF EventsOnce, ReadOnce, Once
<1>8. NearlyInOrder(historyFile, {})
  <2>1. SUFFICES ASSUME NEW i \in readableLines(historyFile)
        PROVE  Few({e \in After(historyFile, i) \cup {} : e < historyFile[i]})
    BY DEF NearlyInOrder
  <2>2. Few({e \in After(historyFile, i) \cup Pending : e < historyFile[i]})
    BY HistoryParts DEF NearlyInOrder
  <2> QED BY <2>2, HistoryParts, OrderKept
<1>9. DroppedAreOld'
  <2>1. ASSUME NEW e \in OnDisk \ InMemory'
        PROVE  Len(historyInMemory') = MaxHistory /\ Few({f \in InMemory' : f < e})
    BY <1>1, <1>2, <1>3, <2>1, KeptInOrder DEF InMemory
  <2> QED BY <1>4, <2>1 DEF DroppedAreOld
<1> QED
  BY <1>1, <1>4, <1>6, <1>7, <1>8, <1>9
  DEF HistoryInv, AppendsNearlyInOrder, MemoryNearlyInOrder

\* What changes nothing of the history may count (trust.go, inventory.go).
LEMMA OtherStep ==
  ASSUME HistoryInv, TypeOK', UNCHANGED events, UNCHANGED changes \/ Counted
  PROVE  HistoryInv'
<1>1. /\ InMemory' = InMemory /\ OnDisk' = OnDisk /\ Pending' = Pending
      /\ UNCHANGED <<historyFile, historyInMemory, record>>
  BY DEF events, InMemory, OnDisk, Pending
<1>2. \A e \in 1 .. changes : e \in 1 .. changes'
  <2>1. changes \in Nat /\ changes' \in {changes, changes + 1}
    BY HistoryParts, BoundAssumption DEF Counted
  <2> QED BY <2>1
<1>3. EventsOnce'
  BY <1>1, <1>2 DEF HistoryInv, EventsOnce
<1> QED
  BY <1>1, <1>3
  DEF HistoryInv, AppendsNearlyInOrder, MemoryNearlyInOrder, DroppedAreOld

\* Every step keeps the order of the events (history.go).
LEMMA HistoryStep == HistoryInv /\ [Next]_vars => HistoryInv'
<1> SUFFICES ASSUME HistoryInv, [Next]_vars PROVE HistoryInv'
  OBVIOUS
<1>1. TypeOK'
  BY TypeStep DEF HistoryInv
<1>2. ASSUME NEW r \in Recorder, recordEvent(r) PROVE HistoryInv'
  BY <1>1, <1>2, RecordStep
<1>3. ASSUME NEW r \in Recorder, appendEvent(r) PROVE HistoryInv'
  <2>1. /\ record[r] # 0 /\ record' = [record EXCEPT ![r] = 0]
        /\ UNCHANGED <<historyInMemory, changes>>
        /\ historyFile' = historyFile \/ historyFile' = Append(historyFile, record[r])
    BY <1>3 DEF appendEvent
  <2> QED BY <1>1, <2>1, FailStep, AppendStep
<1>4. ASSUME NEW r \in Recorder, appendFails(r) PROVE HistoryInv'
  <2>1. /\ record[r] # 0 /\ record' = [record EXCEPT ![r] = 0]
        /\ UNCHANGED <<historyInMemory, changes>>
        /\ historyFile' = historyFile \/ historyFile' = Append(historyFile, Torn)
    BY <1>4 DEF appendFails
  <2> QED BY <1>1, <2>1, FailStep
<1>5. CASE restart
  BY <1>1, <1>5, RestartStep
<1>6. CASE UNCHANGED events /\ (UNCHANGED changes \/ Counted)
  BY <1>1, <1>6, OtherStep
<1> QED BY <1>2, <1>3, <1>4, <1>5, <1>6, EventsNext

\* A memory in which no event stands twice has as many events as entries.
LEMMA MemorySize ==
  ASSUME NEW s \in Seq(1 .. MaxChanges), Once(s)
  PROVE  IsFiniteSet(Range(s)) /\ Cardinality(Range(s)) = Len(s)
<1> DEFINE n == Len(s)
           S == 1 .. n
           T == Range(s)
<1>1. n \in Nat /\ DOMAIN s = S /\ s \in [S -> 1 .. MaxChanges]
  BY LenProperties
<1> HIDE DEF n
<1>2. IsFiniteSet(S) /\ Cardinality(S) = n
  BY <1>1, FS_Interval
<1>3. s \in [S -> T]
  BY <1>1 DEF Range
<1>4. s \in Surjection(S, T) /\ s \in Injection(S, T)
  BY <1>1, <1>3 DEF Surjection, Injection, IsInjective, Range, Once
<1> HIDE DEF S, T
<1>5. IsFiniteSet(T) /\ Cardinality(T) = Cardinality(S)
  BY <1>2, <1>4, FS_Surjection
<1> QED BY <1>2, <1>5 DEF T, n

\* Where few of a set are older, all others but a few are newer.
LEMMA RestIsNewer ==
  ASSUME NEW S, S \subseteq 1 .. MaxChanges, NEW e \in 1 .. MaxChanges, e \notin S,
         IsFiniteSet(S), Few({f \in S : f < e})
  PROVE  Cardinality({f \in S : f > e}) > Cardinality(S) - Cardinality(Recorder)
<1> DEFINE Old == {f \in S : f < e}
           New == {f \in S : f > e}
<1>1. S = Old \cup New /\ Old \cap New = {}
  <2>1. \A f \in S : f \in Int /\ e \in Int /\ f # e
    OBVIOUS
  <2>2. \A f \in S : (f < e \/ f > e) /\ ~ (f < e /\ f > e)
    BY <2>1
  <2> QED BY <2>2
<1>2. Old \in SUBSET S /\ New \in SUBSET S
  OBVIOUS
<1> HIDE DEF Old, New
<1>3. IsFiniteSet(Old) /\ IsFiniteSet(New)
  BY <1>2, FS_Subset
<1>4. Cardinality(S) = Cardinality(Old) + Cardinality(New) - Cardinality({})
  BY <1>1, <1>3, FS_Union
<1>5. /\ Cardinality(Old) \in Nat /\ Cardinality(New) \in Nat
      /\ Cardinality({}) = 0 /\ Cardinality(Recorder) \in Nat
  BY <1>3, FS_CardinalityType, FS_EmptySet, ProcessAssumption
<1>6. Cardinality(Old) < Cardinality(Recorder)
  BY DEF Few, Old
<1> QED BY <1>4, <1>5, <1>6 DEF New

\* An event on the disk leaves the memory only for newer ones, but for fewer than there
\* are recorders, whatever fails and however often the program restarts (history.go,
\* recordEvent, loadHistory).
THEOREM NewestAlways == Spec => []NewestKept
<1>1. Init => HistoryInv
  <2> SUFFICES ASSUME Init PROVE HistoryInv
    OBVIOUS
  <2>1. TypeOK
    BY InitType
  <2>2. /\ historyFile = << >> /\ historyInMemory = << >>
        /\ InMemory = {} /\ OnDisk = {} /\ Pending = {}
        /\ readableLines(historyFile) = {} /\ readableLines(historyInMemory) = {}
        /\ DOMAIN historyFile = {} /\ DOMAIN historyInMemory = {}
    BY DEF Init, InMemory, OnDisk, Pending, Range, readableLines
  <2>3. EventsOnce
    BY <2>2 DEF Init, EventsOnce
  <2> QED
    BY <2>1, <2>2, <2>3
    DEF HistoryInv, AppendsNearlyInOrder, MemoryNearlyInOrder, NearlyInOrder, DroppedAreOld
<1>2. HistoryInv /\ [Next]_vars => HistoryInv'
  BY HistoryStep
<1>3. HistoryInv => NewestKept
  <2> SUFFICES ASSUME HistoryInv, NEW e \in OnDisk \ InMemory
               PROVE  Cardinality({f \in InMemory : f > e})
                        > MaxHistory - Cardinality(Recorder)
    BY DEF NewestKept
  <2>1. Len(historyInMemory) = MaxHistory /\ Few({f \in InMemory : f < e})
    BY DEF HistoryInv, DroppedAreOld
  <2>2. IsFiniteSet(InMemory) /\ Cardinality(InMemory) = MaxHistory
    BY <2>1, HistoryParts, MemorySize DEF InMemory
  <2>3. InMemory \subseteq 1 .. MaxChanges /\ e \in 1 .. MaxChanges
    <3>1. InMemory \cup OnDisk \subseteq 1 .. changes /\ changes \in 0 .. MaxChanges
      BY HistoryParts
    <3>2. 1 .. changes \subseteq 1 .. MaxChanges
      BY <3>1, BoundAssumption
    <3> QED BY <3>1, <3>2
  <2> QED BY <2>1, <2>2, <2>3, RestIsNewer
<1> QED BY <1>1, <1>2, <1>3, PTL DEF Spec

-----------------------------------------------------------------------------
(* A disk without failures *)

\* No append has failed or stopped halfway (history.go, recordEvent).
Intact == HalfLines = {} /\ ~ halfLine /\ failed = {}

\* While appends succeed, every line of the history is whole.
LEMMA IntactStep ==
  ASSUME Fault \cap {"append", "half"} = {}
  PROVE  TypeOK /\ Intact /\ [Next]_vars => Intact'
<1> SUFFICES ASSUME TypeOK, Intact, [Next]_vars PROVE Intact'
  OBVIOUS
<1> USE DEF Intact
<1>1. ASSUME NEW r \in Recorder, recordEvent(r) PROVE Intact'
  BY <1>1 DEF recordEvent, HalfLines
<1>2. ASSUME NEW r \in Recorder, appendEvent(r) PROVE Intact'
  <2>1. historyFile \in Seq(Line) /\ record[r] \in Line /\ record[r] # Torn
    BY <1>2, LineAssumption, BoundAssumption DEF TypeOK, appendEvent, Line
  <2>2. historyFile' = Append(historyFile, record[r]) /\ ~ halfLine' /\ failed' = failed
    BY <1>2 DEF appendEvent
  <2>3. /\ DOMAIN historyFile' = DOMAIN historyFile \cup {Len(historyFile) + 1}
        /\ \A i \in DOMAIN historyFile : historyFile'[i] = historyFile[i]
        /\ historyFile'[Len(historyFile) + 1] = record[r]
    BY <2>1, <2>2, Appended
  <2> QED BY <2>1, <2>2, <2>3 DEF HalfLines
<1>3. ASSUME NEW r \in Recorder, appendFails(r) PROVE FALSE
  BY <1>3 DEF appendFails
<1>4. CASE restart
  BY <1>4 DEF restart, HalfLines
<1>5. CASE UNCHANGED events
  BY <1>5 DEF events, HalfLines
<1> QED BY <1>1, <1>2, <1>3, <1>4, <1>5, EventsNext

\* While appends succeed, every event that the dashboard shows is on the disk or in
\* the hands of the goroutine that recorded it, however many record at once and however
\* often the program restarts (history.go, recordEvent: "works as evidence").
THEOREM EvidenceComplete ==
  ASSUME Fault \cap {"append", "half"} = {}
  PROVE  Spec => [](InMemory \subseteq OnDisk \cup Range(record))
<1>1. Init => Intact
  BY DEF Init, Intact, HalfLines
<1>2. TypeOK /\ Intact /\ [Next]_vars => Intact'
  BY IntactStep
<1>3. TypeOK /\ Intact /\ MemoryOnDisk => InMemory \subseteq OnDisk \cup Range(record)
  <2> SUFFICES ASSUME TypeOK, Intact, MemoryOnDisk
               PROVE  InMemory \subseteq OnDisk \cup Range(record)
    OBVIOUS
  <2>1. Cardinality(Missing) <= 0
    BY FS_EmptySet DEF Intact, MemoryOnDisk, Missing
  <2>2. Missing = {}
    BY <2>1, CountedSets, FS_EmptySet
  <2> QED BY <2>2 DEF Missing, Intact
<1> QED BY <1>1, <1>2, <1>3, TypeCorrect, MemoryKept, PTL DEF Spec

=============================================================================
