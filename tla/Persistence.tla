------------------------------ MODULE Persistence ------------------------------
(***************************************************************************)
(* What outlives the process (trust.go, inventory.go, history.go): the     *)
(* list of trusted devices and the inventory, rewritten as a whole after   *)
(* every change, and the history, to which every event adds a line.        *)
(*                                                                         *)
(* Memory is changed under a mutex, files are written without any.  A save *)
(* copies the list, then os.WriteFile truncates the file, then one write   *)
(* puts the copy at its start: what another writer has put there meanwhile *)
(* and is longer sticks out behind it, and that is no JSON.                *)
(*                                                                         *)
(* The text of an entry is a constant size, so a list's length is its      *)
(* number of entries; an event is its number.                              *)
(*                                                                         *)
(* A definition X_Y just above a definition X is X with a mistake in it;   *)
(* the specification does not use it.                                      *)
(***************************************************************************)
EXTENDS Integers, Sequences, FiniteSets, Functions

CONSTANTS
  MAC,
  Handler,     \* goroutines that serve the dashboard
  Loop,        \* the goroutine of startContinuousMonitoring
  Recorder,    \* goroutines that record events
  MaxHistory,  \* maxHistoryInMemory
  Torn,        \* a line of the history that cannot be read
  Fault,       \* which of FaultKind may happen
  MaxChanges   \* bound: how many changes and events

FaultKind == {
  "write",     \* a file cannot be opened, or its new contents not be written
  "append",    \* an event cannot be appended
  "half",      \* half of an event's line is appended
  "crash" }    \* the process ends, and is started again

Writer == Handler \cup {Loop}
List == {"confiaveis", "conhecidos"}

\* Handlers save the trusted devices, the loop the inventory.
ListOf(w) == IF w = Loop THEN "conhecidos" ELSE "confiaveis"

ASSUME ProcessAssumption ==
  Loop \notin Handler /\ IsFiniteSet(MAC) /\ IsFiniteSet(Recorder)

ASSUME BoundAssumption ==
  Fault \subseteq FaultKind /\ MaxHistory \in Nat \ {0} /\ MaxChanges \in Nat

ASSUME LineAssumption == Torn \notin Nat

VARIABLES
  memory,          \* trusted, knownDevices
  file,            \* confiaveis.json, conhecidos.json
  save,            \* each writer's progress through its change and save
  disturbed,       \* history: lists whose last save failed or was overlapped
  historyInMemory,
  historyFile,     \* its lines
  halfLine,        \* the last line has no end yet
  record,          \* the event each recorder has still to append, or 0
  failed,          \* history: events whose append failed
  changes          \* history: how many changes and events

lists == <<memory, file, save, disturbed>>
events == <<historyInMemory, historyFile, halfLine, record, failed>>
vars == <<lists, events, changes>>

-----------------------------------------------------------------------------
(* Files *)

\* Readable or not, a file has a length: what is left of what was written to it.
FileState == [readable : BOOLEAN, list : SUBSET MAC, length : Nat]

\* A file that does not exist reads the same as one that was just truncated.
Empty == [readable |-> FALSE, list |-> {}, length |-> 0]

\* A write at the start of a file leaves the end of longer contents behind.
Written(old, list) ==
  IF old.length > Cardinality(list)
  THEN [readable |-> FALSE, list |-> {}, length |-> old.length]
  ELSE [readable |-> TRUE, list |-> list, length |-> Cardinality(list)]

\* loadTrusted, loadKnownDevices: what cannot be parsed is as good as absent.
Loaded(f) == IF f.readable THEN f.list ELSE {}

SaveState == [phase : {"idle", "changed", "copied", "truncated"}, list : SUBSET MAC]
Idle == [phase |-> "idle", list |-> {}]

Saving(l) == {w \in Writer : ListOf(w) = l /\ save[w] # Idle}

Init ==
  /\ memory = [l \in List |-> {}]
  /\ file = [l \in List |-> Empty]
  /\ save = [w \in Writer |-> Idle]
  /\ disturbed = {}
  /\ historyInMemory = << >>
  /\ historyFile = << >>
  /\ halfLine = FALSE
  /\ record = [r \in Recorder |-> 0]
  /\ failed = {}
  /\ changes = 0

Counted == changes < MaxChanges /\ changes' = changes + 1

-----------------------------------------------------------------------------
(* Lists: change the memory, copy it, truncate the file, write *)

\* A save that nobody else's save runs into puts right what earlier ones did.
Begin(w, list) ==
  LET l == ListOf(w) IN
  /\ save[w] = Idle
  /\ Counted
  /\ memory' = [memory EXCEPT ![l] = list]
  /\ save' = [save EXCEPT ![w].phase = "changed"]
  /\ disturbed' = IF Saving(l) = {} THEN disturbed \ {l} ELSE disturbed \cup {l}
  /\ UNCHANGED <<file, events>>

setTrusted(h, mac, value) ==
  LET trusted == memory["confiaveis"] IN
  Begin(h, IF value THEN trusted \cup {mac} ELSE trusted \ {mac})

\* markSeen for every host of a scan.
markSeen(macs) == Begin(Loop, memory["conhecidos"] \cup macs)

copyList(w) ==
  /\ save[w].phase = "changed"
  /\ save' = [save EXCEPT ![w] = [phase |-> "copied", list |-> memory[ListOf(w)]]]
  /\ UNCHANGED <<memory, file, disturbed, events, changes>>

\* The first half of os.WriteFile.
openFile(w) ==
  /\ save[w].phase = "copied"
  /\ file' = [file EXCEPT ![ListOf(w)] = Empty]
  /\ save' = [save EXCEPT ![w].phase = "truncated"]
  /\ UNCHANGED <<memory, disturbed, events, changes>>

writeFile_Unopened(w) ==
  /\ save[w].phase = "copied"
  /\ file' = [file EXCEPT ![ListOf(w)] = Written(@, save[w].list)]
  /\ save' = [save EXCEPT ![w] = Idle]
  /\ UNCHANGED <<memory, disturbed, events, changes>>

\* The second half.
writeFile(w) ==
  /\ save[w].phase = "truncated"
  /\ file' = [file EXCEPT ![ListOf(w)] = Written(@, save[w].list)]
  /\ save' = [save EXCEPT ![w] = Idle]
  /\ UNCHANGED <<memory, disturbed, events, changes>>

\* Either half may fail; the error is ignored.
saveFails(w) ==
  /\ "write" \in Fault
  /\ save[w].phase \in {"copied", "truncated"}
  /\ save' = [save EXCEPT ![w] = Idle]
  /\ disturbed' = disturbed \cup {ListOf(w)}
  /\ UNCHANGED <<memory, file, events, changes>>

-----------------------------------------------------------------------------
(* Events *)

LastOf_First(s) == SubSeq(s, 1, IF Len(s) <= MaxHistory THEN Len(s) ELSE MaxHistory)

LastOf(s) ==
  IF Len(s) <= MaxHistory THEN s ELSE SubSeq(s, Len(s) - MaxHistory + 1, Len(s))

\* recordEvent: memory first.
recordEvent(r) ==
  /\ record[r] = 0
  /\ Counted
  /\ record' = [record EXCEPT ![r] = changes']
  /\ historyInMemory' = LastOf(Append(historyInMemory, changes'))
  /\ UNCHANGED <<lists, historyFile, halfLine, failed>>

appendEvent_KeepHalf(r) ==
  /\ record[r] # 0
  /\ historyFile' = IF halfLine THEN historyFile ELSE Append(historyFile, record[r])
  /\ record' = [record EXCEPT ![r] = 0]
  /\ UNCHANGED <<lists, historyInMemory, halfLine, failed, changes>>

\* A line after half a line makes one line that cannot be read.
appendEvent(r) ==
  /\ record[r] # 0
  /\ historyFile' = IF halfLine THEN historyFile ELSE Append(historyFile, record[r])
  /\ halfLine' = FALSE
  /\ record' = [record EXCEPT ![r] = 0]
  /\ UNCHANGED <<lists, historyInMemory, failed, changes>>

\* The file cannot be opened, or the disk is full in the middle of the line.
appendFails(r) ==
  /\ record[r] # 0
  /\ \/ "append" \in Fault /\ UNCHANGED <<historyFile, halfLine>>
     \/ /\ "half" \in Fault
        /\ historyFile' = IF halfLine THEN historyFile ELSE Append(historyFile, Torn)
        /\ halfLine' = TRUE
  /\ failed' = failed \cup {record[r]}
  /\ record' = [record EXCEPT ![r] = 0]
  /\ UNCHANGED <<lists, historyInMemory, changes>>

-----------------------------------------------------------------------------
(* Restart *)

Readable_Any(line) == TRUE
Readable(line) == line # Torn

readableLines(lines) == {i \in DOMAIN lines : Readable(lines[i])}

\* How many of R come no later than i, and the k-th of R.
Rank(i, R) == Cardinality({j \in R : j <= i})
Nth(k, R) == CHOOSE i \in R : Rank(i, R) = k

\* The lines that can be parsed, in their order: loadHistory skips the others.
parsed(lines) ==
  LET R == readableLines(lines) IN [k \in 1 .. Cardinality(R) |-> lines[Nth(k, R)]]

\* The process ends wherever it is; loadHistory, loadTrusted, loadKnownDevices.
restart ==
  /\ "crash" \in Fault
  /\ memory' = [l \in List |-> Loaded(file[l])]
  /\ save' = [w \in Writer |-> Idle]
  /\ disturbed' = {}
  /\ historyInMemory' = LastOf(parsed(historyFile))
  /\ record' = [r \in Recorder |-> 0]
  /\ UNCHANGED <<file, historyFile, halfLine, failed, changes>>

saveStep(w) == copyList(w) \/ openFile(w) \/ writeFile(w) \/ saveFails(w)

Next ==
  \/ \E h \in Handler, mac \in MAC, value \in BOOLEAN : setTrusted(h, mac, value)
  \/ \E macs \in SUBSET MAC : markSeen(macs)
  \/ \E w \in Writer : saveStep(w)
  \/ \E r \in Recorder : recordEvent(r) \/ appendEvent(r) \/ appendFails(r)
  \/ restart

Spec == Init /\ [][Next]_vars

-----------------------------------------------------------------------------
(* Correctness *)

ListsOK ==
  /\ memory \in [List -> SUBSET MAC]
  /\ file \in [List -> FileState]
  /\ save \in [Writer -> SaveState]
  /\ disturbed \subseteq List

TypeOK ==
  /\ ListsOK
  /\ historyInMemory \in Seq(1 .. MaxChanges)
  /\ historyFile \in Seq(1 .. MaxChanges \cup {Torn})
  /\ halfLine \in BOOLEAN
  /\ record \in [Recorder -> 0 .. MaxChanges]
  /\ failed \subseteq 1 .. MaxChanges
  /\ changes \in 0 .. MaxChanges

\* A restart loses nothing of a list once its saves are over: the file has the list of
\* the memory, unless two saves overlapped or one failed and no save has run alone
\* since (trust.go, saveTrusted; inventory.go, saveKnownDevices).
SavedAtRest ==
  \A l \in List :
    Saving(l) = {} /\ l \notin disturbed => Loaded(file[l]) = memory[l]

OnDisk == Range(historyFile) \ {Torn}
InMemory == Range(historyInMemory)
HalfLines == {i \in DOMAIN historyFile : historyFile[i] = Torn}

\* What the dashboard shows is on the disk, or on its way there, or its line failed:
\* whatever goes wrong, a half line costs one more event and no other
\* (history.go, recordEvent: "works as evidence").
MemoryOnDisk ==
  LET missing == InMemory \ (OnDisk \cup Range(record) \cup failed) IN
  Cardinality(missing) <= Cardinality(HalfLines)

\* An event on the disk leaves the memory only for newer ones, but for those that
\* other goroutines had recorded before it and appended after it, also across restarts
\* (history.go, recordEvent, loadHistory).
NewestKept ==
  \A e \in OnDisk \ InMemory :
    Cardinality({f \in InMemory : f > e}) > MaxHistory - Cardinality(Recorder)

-----------------------------------------------------------------------------
(* Why MemoryOnDisk and NewestKept hold *)

Missing == InMemory \ (OnDisk \cup Range(record) \cup failed)

\* The half line an event may still be glued to has cost none so far
\* (history.go, recordEvent).
HalfLinePays ==
  Cardinality(Missing) + (IF halfLine THEN 1 ELSE 0) <= Cardinality(HalfLines)

MemoryInv == TypeOK /\ HalfLinePays

Pending == Range(record) \ {0}

\* An event is shown once, and is on the disk once or still to be appended
\* (history.go, recordEvent).
EventsOnce ==
  /\ InMemory \cup OnDisk \cup Pending \subseteq 1 .. changes
  /\ OnDisk \cap Pending = {}
  /\ \A q, r \in Recorder : record[q] = record[r] /\ record[q] # 0 => q = r
  /\ \A i, j \in DOMAIN historyFile :
       historyFile[i] = historyFile[j] /\ Readable(historyFile[i]) => i = j
  /\ \A i, j \in DOMAIN historyInMemory :
       historyInMemory[i] = historyInMemory[j] => i = j

After(s, i) == {s[j] : j \in i + 1 .. Len(s)} \ {Torn}

\* Fewer than can be on their way at once with one more.
Few(S) == Cardinality(S) < Cardinality(Recorder)

\* What comes after an event is newer, but for a few.
NearlyInOrder(s, waiting) ==
  \A i \in readableLines(s) : Few({e \in After(s, i) \cup waiting : e < s[i]})

\* Only what was pending when an event was appended can be appended after it, though
\* recorded before it; a restart takes that order to the memory (history.go,
\* recordEvent, loadHistory).
AppendsNearlyInOrder == NearlyInOrder(historyFile, Pending)
MemoryNearlyInOrder == NearlyInOrder(historyInMemory, {})

\* What is not in memory left a full one, and few that remain are older.
DroppedAreOld ==
  \A e \in (OnDisk \cup Pending) \ InMemory :
    Len(historyInMemory) = MaxHistory /\ Few({f \in InMemory : f < e})

HistoryInv ==
  /\ TypeOK
  /\ EventsOnce
  /\ AppendsNearlyInOrder
  /\ MemoryNearlyInOrder
  /\ DroppedAreOld

=============================================================================
