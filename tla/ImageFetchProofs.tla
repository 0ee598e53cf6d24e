-------------------------- MODULE ImageFetchProofs --------------------------
(***************************************************************************)
(* Proofs about ImageFetch for every artifact, size and number of fetches:  *)
(* for any number of fetchers at a time the types, and that no .part file   *)
(* is left behind; and for one fetcher at a time that nothing partial is    *)
(* published but by the copy, and that success is the artifact asked for.   *)
(* Two fetchers to one destination share its .part file, and then the last  *)
(* two fail.                                                                *)
(***************************************************************************)
EXTENDS ImageFetch, TLAPS, FiniteSetTheorems

-----------------------------------------------------------------------------
(* The types, for any number of fetchers at a time.  A fetch that is under  *)
(* way knows its artifact, and one that failed knows why.                   *)
IEntry ==
  /\ entry \in [{"part", "out"} -> File \cup {None}]
  /\ entry["part"] = entry["out"] => entry["out"] = None
  /\ data \in [File -> [Chunk -> Bytes]]

IUnderWay ==
  \A f \in Fetcher :
    /\ job[f].pc # "idle" => job[f].id \in Artifact
    /\ job[f].pc = "fail" => job[f].why # ""

LEMMA NoJobIsJob ==
  NoJob \in Job /\ NoJob.pc = "idle" /\ NoJob.fd = None /\ NoJob.to = None
  BY FetchAssumption DEF Job, NoJob, Steps

Opened == {"stream", "close", "copy"}
IHist == left \in BOOLEAN /\ torn \in BOOLEAN

(* Each fetcher holds two files at most, and the directory names two: there *)
(* is always a new one to be had.                                           *)
LEMMA RoomForOne ==
  /\ NewFile \in File /\ NewFile # None
  /\ NewFile \notin {entry["part"], entry["out"]}
  /\ \A f \in Fetcher : NewFile \notin {job[f].fd, job[f].to}
<1> DEFINE N == Cardinality(Fetcher)
           Held == {job[f].fd : f \in Fetcher}
           Copied == {job[f].to : f \in Fetcher}
           Named == {entry["part"], entry["out"]}
           Used == (Held \cup Copied) \cup Named
<1>1. N \in Nat
  BY FetchAssumption, FS_CardinalityType
<1>2. IsFiniteSet(Held) /\ Cardinality(Held) <= N
  <2>1. [f \in Fetcher |-> job[f].fd] \in Surjection(Fetcher, Held)
    BY DEF Surjection
  <2>2. QED
    BY <2>1, FetchAssumption, FS_Surjection
<1>3. IsFiniteSet(Copied) /\ Cardinality(Copied) <= N
  <2>1. [f \in Fetcher |-> job[f].to] \in Surjection(Fetcher, Copied)
    BY DEF Surjection
  <2>2. QED
    BY <2>1, FetchAssumption, FS_Surjection
<1>4. IsFiniteSet(Used) /\ Cardinality(Used) <= 2 * N + 2
  <2>1. IsFiniteSet(Named) /\ Cardinality(Named) <= 2
    <3>1. /\ IsFiniteSet({}) /\ Cardinality({}) = 0
      BY FS_EmptySet
    <3>2. /\ IsFiniteSet({entry["part"]}) /\ Cardinality({entry["part"]}) = 1
      BY FS_Singleton
    <3>3. Named = {entry["part"]} \cup {entry["out"]}
      OBVIOUS
    <3> HIDE DEF Named
    <3>4. /\ IsFiniteSet(Named)
          /\ Cardinality(Named) = IF entry["out"] \in {entry["part"]} THEN 1 ELSE 1 + 1
      BY <3>2, <3>3, FS_AddElement
    <3>5. QED
      BY <3>4
  <2> HIDE DEF Held, Copied, Named, N
  <2>2. /\ Cardinality(Held) \in Nat /\ Cardinality(Copied) \in Nat /\ Cardinality(Named) \in Nat
    BY <1>2, <1>3, <2>1, FS_CardinalityType
  <2>3. /\ IsFiniteSet(Held \cup Copied)
        /\ Cardinality(Held \cup Copied)
             = Cardinality(Held) + Cardinality(Copied) - Cardinality(Held \cap Copied)
        /\ Cardinality(Held \cap Copied) \in Nat
    BY <1>2, <1>3, FS_Union, FS_Intersection, FS_CardinalityType
  <2> DEFINE Both == Held \cup Copied
  <2>4. IsFiniteSet(Both) /\ Cardinality(Both) <= 2 * N /\ Cardinality(Both) \in Nat
    BY <1>1, <1>2, <1>3, <2>2, <2>3, FS_CardinalityType
  <2>5. Used = Both \cup Named
    BY DEF Used
  <2> HIDE DEF Both, Used
  <2>6. /\ IsFiniteSet(Used)
        /\ Cardinality(Used) = Cardinality(Both) + Cardinality(Named) - Cardinality(Both \cap Named)
        /\ Cardinality(Both \cap Named) \in Nat
    BY <2>1, <2>4, <2>5, FS_Union, FS_Intersection, FS_CardinalityType
  <2>7. QED
    BY <1>1, <2>1, <2>2, <2>4, <2>6
<1>5. IsFiniteSet(File) /\ Cardinality(File) = 3 + 2 * N
  <2>1. File = 1 .. (3 + 2 * N)
    BY DEF File
  <2> HIDE DEF N
  <2>2. QED
    BY <1>1, <2>1, FS_Interval
<1>6. ~ (File \subseteq Used)
  <2> HIDE DEF Used, N
  <2>1. SUFFICES ASSUME File \in SUBSET Used PROVE FALSE
    OBVIOUS
  <2>2. Cardinality(File) <= Cardinality(Used) /\ Cardinality(Used) \in Nat
    BY <1>4, <2>1, FS_Subset, FS_CardinalityType
  <2>3. QED
    BY <1>1, <1>4, <1>5, <2>2
<1>7. None \notin File
  BY <1>1, FetchAssumption DEF File
<1>8. \E n \in File : /\ n \notin {entry["part"], entry["out"]}
                      /\ \A f \in Fetcher : n \notin {job[f].fd, job[f].to}
  BY <1>6
<1>9. QED
  BY <1>7, <1>8, Zenon DEF NewFile

LEMMA NoFileIsNone == None \notin File
  BY FetchAssumption, FS_CardinalityType DEF File

LEMMA TypeInit == Init => TypeOK /\ IUnderWay
<1> SUFFICES ASSUME Init PROVE TypeOK /\ IUnderWay
  OBVIOUS
<1>1. Cardinality(Fetcher) \in Nat
  BY FetchAssumption, FS_CardinalityType
<1>2. IEntry
  BY <1>1, FetchAssumption DEF Init, IEntry, File, Only, Bytes, Name
<1>3. NoJob \in Job /\ NoJob.pc = "idle" /\ NoJob.fd = None /\ NoJob.to = None
  BY NoJobIsJob
<1>4. \A f \in Fetcher : job[f] = NoJob
  BY DEF Init
<1>5. IUnderWay
  BY <1>3, <1>4 DEF IUnderWay
<1>6. \A f \in Fetcher : /\ job[f].fd # None <=> job[f].pc \in {"stream", "close", "copy"}
                         /\ job[f].to # None <=> job[f].pc = "copy"
  BY <1>3, <1>4
<1>7. job \in [Fetcher -> Job]
  BY <1>3 DEF Init
<1>8. fetches \in 0 .. MaxFetches /\ result \in [Fetcher -> Errors \cup {"none", "ok"}]
  BY FetchAssumption DEF Init
<1>9. left \in BOOLEAN /\ torn \in BOOLEAN
  BY DEF Init
<1>10. QED
  BY <1>2, <1>5, <1>6, <1>7, <1>8, <1>9 DEF IEntry, TypeOK

(* What a step of one fetch has to establish.                               *)
LEMMA TypeStep ==
  ASSUME TypeOK, IUnderWay, NEW f \in Fetcher, NEW j \in Job,
         job' = [job EXCEPT ![f] = j],
         j.fd # None <=> j.pc \in Opened,
         j.to # None <=> j.pc = "copy",
         j.pc # "idle" => j.id \in Artifact,
         j.pc = "fail" => j.why # "",
         NEW r \in Errors \cup {"none", "ok"},
         result' \in {result, [result EXCEPT ![f] = r]},
         fetches' \in 0 .. MaxFetches, IHist', IEntry'
  PROVE  TypeOK' /\ IUnderWay'
<1>1. job' \in [Fetcher -> Job]
  BY DEF TypeOK
<1>2. \A g \in Fetcher : job'[g] = IF g = f THEN j ELSE job[g]
  BY DEF TypeOK
<1>3. \A g \in Fetcher : /\ job'[g].fd # None <=> job'[g].pc \in Opened
                         /\ job'[g].to # None <=> job'[g].pc = "copy"
  <2> SUFFICES ASSUME NEW g \in Fetcher
               PROVE  /\ job'[g].fd # None <=> job'[g].pc \in Opened
                      /\ job'[g].to # None <=> job'[g].pc = "copy"
    OBVIOUS
  <2>1. CASE g = f
    <3>1. job'[g] = j
      BY <1>2, <2>1
    <3>2. QED
      BY <3>1
  <2>2. CASE g # f
    <3>1. job'[g] = job[g]
      BY <1>2, <2>2
    <3>2. /\ job[g].fd # None <=> job[g].pc \in Opened
          /\ job[g].to # None <=> job[g].pc = "copy"
      BY DEF TypeOK, Opened
    <3>3. QED
      BY <3>1, <3>2
  <2>3. QED
    BY <2>1, <2>2
<1>4. IUnderWay'
  BY <1>2 DEF IUnderWay
<1>5. result' \in [Fetcher -> Errors \cup {"none", "ok"}]
  BY DEF TypeOK
<1>6. QED
  BY <1>1, <1>3, <1>4, <1>5 DEF TypeOK, IEntry, IHist, Opened

(* A step that moves the fetch on, with its file as it was.                 *)
LEMMA TypeGoto ==
  ASSUME TypeOK, IUnderWay, NEW f \in Fetcher, NEW step \in Steps, NEW why \in Errors \cup {""},
         job' = [job EXCEPT ![f] = [job[f] EXCEPT !.pc = step, !.why = why]],
         job[f].pc # "idle", step \notin {"idle", "fail", "copy"}, job[f].to = None,
         job[f].fd # None <=> step \in {"stream", "close"},
         result' = result, fetches' = fetches, IHist', IEntry'
  PROVE  TypeOK' /\ IUnderWay'
<1> DEFINE j == [job[f] EXCEPT !.pc = step, !.why = why]
<1>1. job[f] \in Job /\ job[f].id \in Artifact
  BY DEF TypeOK, IUnderWay
<1>2. j \in Job /\ j.pc = step /\ j.fd = job[f].fd /\ j.to = job[f].to /\ j.id = job[f].id
  BY <1>1 DEF Job
<1>3. fetches' \in 0 .. MaxFetches
  BY DEF TypeOK
<1>4. job[f].fd # None <=> step \in Opened
  <2>1. step \in {"stream", "close"} <=> step \in Opened
    BY DEF Opened
  <2>2. QED
    BY <2>1, Zenon
<1> HIDE DEF j
<1>5. QED
  BY <1>1, <1>2, <1>3, <1>4, TypeStep DEF j

LEMMA TypeReturn ==
  ASSUME TypeOK, IUnderWay, NEW f \in Fetcher, NEW r \in Errors \cup {"none", "ok"},
         Return(f, r), fetches' = fetches, IHist', IEntry'
  PROVE  TypeOK' /\ IUnderWay'
<1>1. fetches' \in 0 .. MaxFetches
  BY DEF TypeOK
<1>2. job' = [job EXCEPT ![f] = NoJob] /\ result' \in {result, [result EXCEPT ![f] = r]}
  BY DEF Return
<1>3. NoJob \in Job /\ NoJob.pc = "idle" /\ NoJob.fd = None /\ NoJob.to = None
  BY NoJobIsJob
<1>4. /\ NoJob.fd # None <=> NoJob.pc \in Opened
      /\ NoJob.to # None <=> NoJob.pc = "copy"
  BY <1>3 DEF Opened
<1>5. QED
  BY <1>1, <1>2, <1>3, <1>4, TypeStep

LEMMA EntryFrame == ASSUME TypeOK PROVE IEntry /\ (UNCHANGED files => IEntry')
  BY DEF TypeOK, IEntry, files

(* What fs::remove leaves of the directory.                                 *)
LEMMA DropEntry == ASSUME TypeOK, Drop, data' = data PROVE IEntry'
<1>1. entry' = [part |-> None, out |-> entry["out"]] \/ entry' = entry
  BY DEF Drop, Name
<1>2. QED
  BY <1>1 DEF TypeOK, IEntry

LEMMA HistNext == TypeOK /\ [Next]_vars => IHist'
<1> SUFFICES ASSUME TypeOK, [Next]_vars PROVE IHist'
  OBVIOUS
<1>1. left \in BOOLEAN /\ torn \in BOOLEAN
  BY DEF TypeOK
<1>2. CASE Save \/ UNCHANGED vars
  BY <1>1, <1>2 DEF Save, vars, hist, IHist
<1>3. ASSUME NEW f \in Fetcher, Start(f) \/ Cancel(f) \/ Arrives(f)
      PROVE  IHist'
  BY <1>1, <1>3 DEF Start, Cancel, Arrives, Sink, Complete, hist, IHist
<1>4. ASSUME NEW f \in Fetcher, Kill(f)
      PROVE  IHist'
  BY <1>1, <1>4 DEF Kill, IHist
<1>5. ASSUME NEW f \in Fetcher, CheckOutput(f) \/ Resolve(f) \/ Transfer(f) \/ CloseOut(f)
                              \/ CopyChunk(f)
      PROVE  IHist'
  BY <1>1, <1>5 DEF CheckOutput, Resolve, Transfer, CloseOut, CopyChunk, hist, IHist
<1>6. ASSUME NEW f \in Fetcher, OpenPart(f)
      PROVE  IHist'
  <2>1. torn' = torn /\ (left' = FALSE \/ left' = left)
    BY <1>6, Zenon DEF OpenPart
  <2>2. QED
    BY <1>1, <2>1 DEF IHist
<1>7. Drop => left' \in BOOLEAN
  BY <1>1 DEF Drop
<1>8. ASSUME NEW f \in Fetcher, Fail(f) \/ Publish(f) \/ CopyEnd(f) \/ CopyFails(f)
      PROVE  IHist'
  <2>1. \/ UNCHANGED left
        \/ Drop
    BY <1>8, Zenon DEF Fail, Publish, Rename, CopyBegin, NothingMoved, CopyEnd, CopyFails, hist
  <2>2. torn' = torn \/ torn' = TRUE \/ torn' = FALSE
    BY <1>8, Zenon DEF Fail, Publish, Rename, CopyBegin, NothingMoved, CopyEnd, CopyFails, hist
  <2>3. QED
    BY <1>1, <1>7, <2>1, <2>2 DEF IHist
<1>9. QED
  BY <1>2, <1>3, <1>4, <1>5, <1>6, <1>8 DEF Next, Step

LEMMA TypeBegin ==
  ASSUME TypeOK, IUnderWay, NEW f \in Fetcher, Start(f) \/ Kill(f) \/ Cancel(f),
         IHist'
  PROVE  TypeOK' /\ IUnderWay'
<1>1. IEntry /\ (UNCHANGED files => IEntry')
  BY EntryFrame
<1>2. job[f] \in Job /\ fetches \in 0 .. MaxFetches /\ MaxFetches \in Nat
  BY FetchAssumption DEF TypeOK
<1>3. CASE Start(f)
  <2>1. PICK a \in Artifact, forced \in BOOLEAN :
          job' = [job EXCEPT ![f] = [NoJob EXCEPT !.pc = "check", !.id = a, !.force = forced]]
    BY <1>3 DEF Start
  <2> DEFINE j == [NoJob EXCEPT !.pc = "check", !.id = a, !.force = forced]
  <2>2. a \in Artifact /\ 0 \in 0 .. Size
    BY FetchAssumption
  <2>3. j \in Job
    BY <2>2, NoJobIsJob DEF Job, Steps
  <2>4. j.pc = "check" /\ j.fd = None /\ j.to = None /\ j.id \in Artifact
    BY <2>2 DEF NoJob
  <2> HIDE DEF j
  <2>5. fetches < MaxFetches /\ fetches' = fetches + 1
      /\ result' = [result EXCEPT ![f] = "none"] /\ UNCHANGED files
    BY <1>3 DEF Start
  <2>6. fetches' \in 0 .. MaxFetches
    BY <1>2, <2>5
  <2>7. /\ j.fd # None <=> j.pc \in Opened
        /\ j.to # None <=> j.pc = "copy"
    BY <2>4 DEF Opened
  <2>8. job' = [job EXCEPT ![f] = j]
    BY <2>1 DEF j
  <2>9. result' \in {result, [result EXCEPT ![f] = "none"]} /\ "none" \in Errors \cup {"none", "ok"}
    BY <2>5
  <2>10. QED
    BY <1>1, <2>3, <2>4, <2>5, <2>6, <2>7, <2>8, <2>9, TypeStep
<1>4. CASE Kill(f)
  <2>1. job' = [job EXCEPT ![f] = NoJob] /\ result' = result /\ fetches' = fetches
      /\ UNCHANGED files
    BY <1>4 DEF Kill, Becomes
  <2>2. NoJob \in Job /\ NoJob.pc = "idle" /\ NoJob.fd = None /\ NoJob.to = None
    BY NoJobIsJob
  <2>3. /\ NoJob.fd # None <=> NoJob.pc \in Opened
        /\ NoJob.to # None <=> NoJob.pc = "copy"
    BY <2>2 DEF Opened
  <2>4. "none" \in Errors \cup {"none", "ok"} /\ fetches' \in 0 .. MaxFetches
    BY <1>2, <2>1
  <2>5. QED
    BY <1>1, <2>1, <2>2, <2>3, <2>4, TypeStep
<1>5. CASE Cancel(f)
  <2> DEFINE j == [job[f] EXCEPT !.cancelled = TRUE]
  <2>1. job' = [job EXCEPT ![f] = j] /\ result' = result /\ fetches' = fetches
      /\ UNCHANGED files
    BY <1>5 DEF Cancel, Becomes
  <2>2. j \in Job /\ j.pc = job[f].pc /\ j.fd = job[f].fd /\ j.to = job[f].to
        /\ j.id = job[f].id /\ j.why = job[f].why
    BY <1>2 DEF Job
  <2> HIDE DEF j
  <2>3. /\ j.fd # None <=> j.pc \in Opened
        /\ j.to # None <=> j.pc = "copy"
        /\ j.pc # "idle" => j.id \in Artifact
        /\ j.pc = "fail" => j.why # ""
    BY <2>2 DEF TypeOK, IUnderWay, Opened
  <2>4. QED
    BY <1>1, <1>2, <2>1, <2>2, <2>3, TypeStep
<1>6. QED
  BY <1>3, <1>4, <1>5

LEMMA TypeAsk ==
  ASSUME TypeOK, IUnderWay, NEW f \in Fetcher, CheckOutput(f) \/ Resolve(f),
         fetches' = fetches, IHist'
  PROVE  TypeOK' /\ IUnderWay'
<1>1. IEntry'
  BY EntryFrame DEF CheckOutput, Resolve
<1>2. job[f] \in Job /\ job[f].fd = None /\ job[f].to = None /\ job[f].pc # "idle"
  BY DEF TypeOK, CheckOutput, Resolve, At
<1>3. CASE \E r \in Errors : Return(f, r)
  BY <1>1, <1>3, TypeReturn
<1>4. CASE \E step \in {"resolve", "name", "open"} : Goto(f, step)
  <2>1. PICK step \in {"resolve", "name", "open"} : Goto(f, step)
    BY <1>4
  <2>2. job' = [job EXCEPT ![f] = [job[f] EXCEPT !.pc = step, !.why = job[f].why]]
      /\ result' = result
    BY <1>2, <2>1 DEF Goto, Becomes, Job
  <2>3. /\ step \in Steps /\ job[f].why \in Errors \cup {""}
        /\ step \notin {"idle", "fail", "copy", "stream", "close"}
    BY <1>2 DEF Steps, Job
  <2>4. job[f].fd # None <=> step \in {"stream", "close"}
    BY <1>2, <2>3, Zenon
  <2>5. QED
    BY <1>1, <1>2, <2>2, <2>3, <2>4, TypeGoto
<1>5. QED
  BY <1>3, <1>4 DEF CheckOutput, Resolve, Errors

LEMMA TypeOpen ==
  ASSUME TypeOK, IUnderWay, NEW f \in Fetcher, OpenPart(f),
         fetches' = fetches, IHist'
  PROVE  TypeOK' /\ IUnderWay'
<1>1. job[f] \in Job /\ job[f].pc = "open" /\ job[f].to = None /\ job[f].id \in Artifact
  BY DEF TypeOK, IUnderWay, OpenPart, At
<1>2. CASE Return(f, "PermissionDenied") /\ UNCHANGED <<files, left>>
  BY <1>2, EntryFrame, TypeReturn DEF Errors
<1>3. CASE ~(Return(f, "PermissionDenied") /\ UNCHANGED <<files, left>>)
  <2> DEFINE n == IF entry["part"] # None THEN entry["part"] ELSE NewFile
             j == [job[f] EXCEPT !.pc = "stream", !.fd = n]
  <2>1. /\ entry' = [part |-> n, out |-> entry["out"]]
        /\ data' = [data EXCEPT ![n] = Only("absent")]
        /\ job' = [job EXCEPT ![f] = j] /\ result' = result
    BY <1>3 DEF OpenPart, Name, Becomes
  <2>2. n \in File /\ n # entry["out"] /\ n # None
    <3>1. CASE entry["part"] = None
      BY <3>1, RoomForOne
    <3>2. CASE entry["part"] # None
      BY <3>2 DEF TypeOK
    <3>3. QED
      BY <3>1, <3>2
  <2> HIDE DEF n
  <2>3. j \in Job /\ j.pc = "stream" /\ j.fd = n /\ j.to = None /\ j.id = job[f].id
    BY <1>1, <2>2 DEF Job, Steps
  <2> HIDE DEF j
  <2>4. IEntry'
    <3>1. Only("absent") \in [Chunk -> Bytes]
      BY DEF Only, Bytes
    <3>2. QED
      BY <2>1, <2>2, <3>1 DEF TypeOK, IEntry
  <2>5. fetches' \in 0 .. MaxFetches
    BY DEF TypeOK
  <2>6. (j.fd # None <=> j.pc \in Opened) /\ (j.to # None <=> j.pc = "copy")
    BY <2>2, <2>3 DEF Opened
  <2>7. QED
    BY <1>1, <2>1, <2>2, <2>3, <2>4, <2>5, <2>6, TypeStep
<1>4. QED
  BY <1>2, <1>3

LEMMA TypeTransfer ==
  ASSUME TypeOK, IUnderWay, NEW f \in Fetcher, Sink(f) \/ Transfer(f) \/ Complete(f),
         fetches' = fetches, IHist'
  PROVE  TypeOK' /\ IUnderWay'
<1>1. /\ job[f] \in Job /\ job[f].pc = "stream" /\ job[f].id \in Artifact
      /\ job[f].fd \in File /\ job[f].to = None
  BY DEF TypeOK, IUnderWay, Sink, Transfer, Complete, At, Job
<1>2. ASSUME NEW r \in Errors, Stop(f, r), UNCHANGED files
      PROVE  TypeOK' /\ IUnderWay'
  <2>1. job' = [job EXCEPT ![f] = [job[f] EXCEPT !.pc = "close", !.why = r]] /\ result' = result
    BY <1>2 DEF Stop, Becomes
  <2>2. job[f].fd # None /\ "close" \in Steps /\ IEntry'
    BY <1>1, <1>2, NoFileIsNone, EntryFrame DEF Steps
  <2>3. QED
    BY <1>1, <1>2, <2>1, <2>2, TypeGoto
<1>3. CASE Complete(f)
  <2>1. job' = [job EXCEPT ![f] = [job[f] EXCEPT !.pc = "close", !.why = job[f].why]]
      /\ result' = result
    BY <1>1, <1>3 DEF Complete, Goto, Becomes, Job
  <2>2. job[f].fd # None /\ "close" \in Steps /\ job[f].why \in Errors \cup {""} /\ IEntry'
    BY <1>1, <1>3, NoFileIsNone, EntryFrame DEF Steps, Job, Complete
  <2>3. QED
    BY <1>1, <2>1, <2>2, TypeGoto
<1>4. CASE \E r \in Errors : Stop(f, r) /\ UNCHANGED files
  BY <1>2, <1>4
<1>5. CASE Sink(f) /\ ~ \E r \in Errors : Stop(f, r) /\ UNCHANGED files
  <2> DEFINE got == job[f].got
             row == [c \in Chunk |-> IF c = got THEN job[f].id
                       ELSE IF c < got /\ data[job[f].fd][c] = "absent"
                            THEN "hole" ELSE data[job[f].fd][c]]
             j == [job[f] EXCEPT !.got = @ + 1]
  <2>1. got < Size /\ data' = [data EXCEPT ![job[f].fd] = row] /\ entry' = entry
      /\ job' = [job EXCEPT ![f] = j] /\ result' = result
    BY <1>1, <1>5 DEF Sink, Errors, Becomes, files, TypeOK
  <2>2. row \in [Chunk -> Bytes]
    BY <1>1 DEF TypeOK, Bytes
  <2>3. got + 1 \in 0 .. Size
    <3>1. got \in 0 .. Size
      BY <1>1, Zenon DEF Job
    <3>2. QED
      BY <2>1, <3>1, FetchAssumption
  <2>4. j \in Job /\ j.pc = "stream" /\ j.fd = job[f].fd /\ j.to = None /\ j.id = job[f].id
    BY <1>1, <2>3 DEF Job
  <2> HIDE DEF row, j
  <2>5. IEntry'
    BY <1>1, <2>1, <2>2 DEF TypeOK, IEntry
  <2>6. fetches' \in 0 .. MaxFetches
    BY DEF TypeOK
  <2>7. (j.fd # None <=> j.pc \in Opened) /\ (j.to # None <=> j.pc = "copy")
    BY <1>1, <2>4, NoFileIsNone DEF Opened
  <2>8. QED
    BY <1>1, <2>1, <2>4, <2>5, <2>6, <2>7, TypeStep
<1>6. QED
  BY <1>3, <1>4, <1>5 DEF Transfer, Errors

LEMMA TypeClose ==
  ASSUME TypeOK, IUnderWay, NEW f \in Fetcher, CloseOut(f),
         fetches' = fetches, IHist'
  PROVE  TypeOK' /\ IUnderWay'
<1>1. /\ job[f] \in Job /\ job[f].pc = "close" /\ job[f].id \in Artifact
      /\ job[f].fd \in File /\ job[f].to = None
  BY DEF TypeOK, IUnderWay, CloseOut, At, Job
<1>2. PICK why \in Errors \cup {""} :
        /\ job' = [job EXCEPT ![f] = Closed(f, why)] /\ result' = result
        /\ UNCHANGED data \/ Lost(f)
        /\ entry' = entry
  <2>1. job[f].why \in Errors \cup {""}
    BY <1>1 DEF Job
  <2>2. QED
    BY <2>1 DEF CloseOut, Becomes, Errors
<1> DEFINE j == Closed(f, why)
<1>3. /\ j \in Job /\ j.fd = None /\ j.to = None /\ j.id = job[f].id /\ j.why = why
      /\ j.pc = IF why = "" THEN "publish" ELSE "fail"
  BY <1>1 DEF Closed, Job, Steps
<1> HIDE DEF j
<1>4. IEntry'
  <2>1. CASE UNCHANGED data
    BY <1>2, <2>1, EntryFrame DEF files
  <2>2. CASE Lost(f)
    <3> DEFINE row == [data[job[f].fd] EXCEPT ![Size - 1] = "lost"]
    <3>1. row \in [Chunk -> Bytes]
      BY <1>1 DEF TypeOK, Bytes
    <3>2. data' = [data EXCEPT ![job[f].fd] = row]
      BY <1>1, <2>2 DEF Lost
    <3> HIDE DEF row
    <3>3. QED
      BY <1>1, <1>2, <3>1, <3>2 DEF TypeOK, IEntry
  <2>3. QED
    BY <1>2, <2>1, <2>2
<1>5. fetches' \in 0 .. MaxFetches
  BY DEF TypeOK
<1>6. (j.fd # None <=> j.pc \in Opened) /\ (j.to # None <=> j.pc = "copy")
  <2>1. j.fd = None /\ j.to = None
    BY <1>3
  <2>2. j.pc \notin Opened /\ j.pc # "copy"
    BY <1>3 DEF Opened
  <2>3. QED
    BY <2>1, <2>2, Zenon
<1>7. QED
  BY <1>1, <1>2, <1>3, <1>4, <1>5, <1>6, TypeStep DEF j

LEMMA TypePublish ==
  ASSUME TypeOK, IUnderWay, NEW f \in Fetcher, Publish(f) \/ Fail(f),
         fetches' = fetches, IHist'
  PROVE  TypeOK' /\ IUnderWay'
<1>1. job[f] \in Job /\ job[f].pc \in {"publish", "fail"} /\ job[f].id \in Artifact
  BY DEF TypeOK, IUnderWay, Publish, Fail, At
<1>2. CASE Fail(f)
  <2>1. job[f].why \in Errors
    BY <1>1, <1>2 DEF Fail, At, IUnderWay, Job
  <2>2. IEntry'
    BY <1>2, DropEntry DEF Fail
  <2>3. QED
    BY <1>2, <2>1, <2>2, TypeReturn DEF Fail
<1>3. CASE NothingMoved(f)
  BY <1>3, DropEntry, TypeReturn DEF NothingMoved, Errors
<1>4. CASE Rename(f)
  <2>1. IEntry'
    BY <1>4 DEF Rename, Name, TypeOK, IEntry
  <2>2. QED
    BY <1>4, <2>1, TypeReturn DEF Rename
<1>5. CASE CopyBegin(f)
  <2> DEFINE to == IF entry["out"] # None THEN entry["out"] ELSE NewFile
             j == [job[f] EXCEPT !.pc = "copy", !.fd = entry["part"], !.to = to, !.got = 0]
  <2>1. /\ entry' = [part |-> entry["part"], out |-> to]
        /\ data' = [data EXCEPT ![to] = Only("absent")]
        /\ job' = [job EXCEPT ![f] = j] /\ result' = result
        /\ entry["part"] # None
    BY <1>5, Zenon DEF CopyBegin, Name, Becomes
  <2>2. entry["part"] \in File /\ to \in File /\ to # None /\ to # entry["part"]
    BY <2>1, RoomForOne DEF TypeOK
  <2> HIDE DEF to
  <2>3. j \in Job /\ j.pc = "copy" /\ j.fd = entry["part"] /\ j.to = to /\ j.id = job[f].id
    <3>1. 0 \in 0 .. Size
      BY FetchAssumption
    <3>2. QED
      BY <1>1, <2>2, <3>1 DEF Job, Steps
  <2> HIDE DEF j
  <2>4. IEntry'
    <3>1. Only("absent") \in [Chunk -> Bytes]
      BY DEF Only, Bytes
    <3>2. QED
      BY <2>1, <2>2, <3>1 DEF TypeOK, IEntry
  <2>5. j.fd # None <=> j.pc \in Opened
    BY <2>1, <2>3 DEF Opened
  <2>6. fetches' \in 0 .. MaxFetches
    BY DEF TypeOK
  <2>7. QED
    BY <1>1, <2>1, <2>2, <2>3, <2>4, <2>5, <2>6, TypeStep
<1>6. QED
  BY <1>2, <1>3, <1>4, <1>5 DEF Publish

LEMMA TypeCopy ==
  ASSUME TypeOK, IUnderWay, NEW f \in Fetcher, CopyChunk(f) \/ CopyEnd(f) \/ CopyFails(f),
         fetches' = fetches, IHist'
  PROVE  TypeOK' /\ IUnderWay'
<1>1. /\ job[f] \in Job /\ job[f].pc = "copy" /\ job[f].id \in Artifact
      /\ job[f].fd \in File /\ job[f].to \in File /\ job[f].got \in 0 .. Size
  BY DEF TypeOK, IUnderWay, CopyChunk, CopyEnd, CopyFails, At, Job
<1>2. CASE CopyEnd(f) \/ CopyFails(f)
  BY <1>2, DropEntry, TypeReturn DEF CopyEnd, CopyFails, Errors
<1>3. CASE CopyChunk(f)
  <2> DEFINE got == job[f].got
             row == [data[job[f].to] EXCEPT ![got] = data[job[f].fd][got]]
             j == [job[f] EXCEPT !.got = got + 1]
  <2>1. /\ got < Size /\ entry' = entry /\ result' = result
        /\ data' = [data EXCEPT ![job[f].to] = row]
        /\ job' = [job EXCEPT ![f] = j]
    BY <1>3 DEF CopyChunk, More, Becomes
  <2>2. row \in [Chunk -> Bytes]
    <3>1. got \in Chunk
      BY <1>1, <2>1, FetchAssumption DEF Chunk
    <3>2. QED
      BY <1>1, <3>1 DEF TypeOK
  <2>3. got + 1 \in 0 .. Size
    BY <1>1, <2>1, FetchAssumption
  <2>4. /\ j \in Job /\ j.pc = "copy" /\ j.fd = job[f].fd /\ j.to = job[f].to
        /\ j.id = job[f].id
    BY <1>1, <2>3 DEF Job
  <2> HIDE DEF row, j
  <2>5. IEntry'
    BY <1>1, <2>1, <2>2 DEF TypeOK, IEntry
  <2>6. fetches' \in 0 .. MaxFetches
    BY DEF TypeOK
  <2>7. (j.fd # None <=> j.pc \in Opened) /\ (j.to # None <=> j.pc = "copy")
    BY <1>1, <2>4, NoFileIsNone DEF Opened
  <2>8. QED
    BY <1>1, <2>1, <2>4, <2>5, <2>6, <2>7, TypeStep
<1>4. QED
  BY <1>2, <1>3

LEMMA TypeSave ==
  ASSUME TypeOK, IUnderWay, Save, IHist'
  PROVE  TypeOK' /\ IUnderWay'
<1>1. NewFile \in File /\ NewFile # None /\ NewFile # entry["part"]
  BY RoomForOne DEF Save
<1>2. Only("user") \in [Chunk -> Bytes]
  BY DEF Only, Bytes
<1>3. entry' = [part |-> entry["part"], out |-> NewFile]
    /\ data' = [data EXCEPT ![NewFile] = Only("user")]
    /\ UNCHANGED <<job, result, fetches>>
  BY DEF Save, Name
<1>4. IEntry'
  BY <1>1, <1>2, <1>3 DEF TypeOK, IEntry
<1>5. QED
  BY <1>3, <1>4 DEF TypeOK, IEntry, IHist, IUnderWay

LEMMA TypeNext == TypeOK /\ IUnderWay /\ [Next]_vars => TypeOK' /\ IUnderWay'
<1> SUFFICES ASSUME TypeOK, IUnderWay, [Next]_vars PROVE TypeOK' /\ IUnderWay'
  OBVIOUS
<1>0. IHist'
  BY HistNext
<1>1. ASSUME NEW f \in Fetcher, Start(f) \/ Cancel(f) \/ Kill(f)
      PROVE  TypeOK' /\ IUnderWay'
  BY <1>0, <1>1, TypeBegin
<1>2. ASSUME NEW f \in Fetcher, Step(f) \/ Arrives(f)
      PROVE  TypeOK' /\ IUnderWay'
  <2>1. fetches' = fetches
    BY <1>2 DEF Step, Arrives
  <2>2. QED
    BY <1>0, <1>2, <2>1, TypeAsk, TypeOpen, TypeTransfer, TypeClose, TypePublish, TypeCopy
       DEF Step, Arrives
<1>3. CASE UNCHANGED vars
  BY <1>3 DEF vars, files, hist, TypeOK, IUnderWay
<1>4. QED
  BY <1>0, <1>1, <1>2, <1>3, TypeSave DEF Next

(* Any number of fetchers, started, killed and run again over one           *)
(* destination, keep the types; above all there is a file to be had         *)
(* whenever one is created, and .part and the destination never name one.   *)
THEOREM FetchTypes == Spec => []TypeOK
<1>1. QED
  BY TypeInit, TypeNext, PTL DEF Spec

-----------------------------------------------------------------------------
(* .part is there only while a fetch may still need it, or was left behind. *)
NeedsPart == {"stream", "close", "fail", "publish", "copy"}
IGone == left \/ entry["part"] = None \/ \E f \in Fetcher : job[f].pc \in NeedsPart

LEMMA GoneNext == TypeOK /\ IGone /\ [Next]_vars => IGone'
<1> SUFFICES ASSUME TypeOK, IGone, [Next]_vars PROVE IGone'
  OBVIOUS
<1>1. CASE Save \/ UNCHANGED vars
  <2>1. UNCHANGED <<job, left>> /\ entry'["part"] = entry["part"]
    BY <1>1 DEF Save, Name, vars, files, hist
  <2>2. QED
    BY <2>1 DEF IGone
<1>2. ASSUME NEW f \in Fetcher, Kill(f)
      PROVE  IGone'
  BY <1>2 DEF Kill, IGone
<1>3. ASSUME NEW f \in Fetcher, UNCHANGED <<entry, left>>,
             NEW j, job' = [job EXCEPT ![f] = j],
             job[f].pc \in NeedsPart => j.pc \in NeedsPart
      PROVE  IGone'
  <2>1. \A g \in Fetcher : job'[g] = IF g = f THEN j ELSE job[g]
    BY <1>3 DEF TypeOK
  <2>2. (\E g \in Fetcher : job[g].pc \in NeedsPart)
          => \E g \in Fetcher : job'[g].pc \in NeedsPart
    BY <1>3, <2>1
  <2>3. QED
    BY <1>3, <2>2 DEF IGone
<1>4. ASSUME NEW f \in Fetcher, Start(f) \/ CheckOutput(f) \/ Resolve(f)
      PROVE  IGone'
  <2>1. PICK j : job' = [job EXCEPT ![f] = j]
    BY <1>4 DEF Start, CheckOutput, Resolve, Return, Goto, Becomes
  <2>2. UNCHANGED <<entry, left>> /\ job[f].pc \notin NeedsPart
    BY <1>4 DEF Start, CheckOutput, Resolve, At, files, hist, NeedsPart
  <2>3. QED
    BY <1>3, <1>4, <2>1, <2>2
<1>5. ASSUME NEW f \in Fetcher, OpenPart(f)
      PROVE  IGone'
  <2>1. CASE Return(f, "PermissionDenied") /\ UNCHANGED <<files, left>>
    BY <1>3, <1>5, <2>1 DEF OpenPart, At, Return, files, NeedsPart
  <2>2. CASE ~(Return(f, "PermissionDenied") /\ UNCHANGED <<files, left>>)
    <3>1. PICK n : job' = [job EXCEPT ![f] = [job[f] EXCEPT !.pc = "stream", !.fd = n]]
      BY <1>5, <2>2, Zenon DEF OpenPart, Becomes
    <3>2. job'[f].pc = "stream"
      BY <3>1 DEF TypeOK, Job
    <3>3. QED
      BY <3>2 DEF IGone, NeedsPart
  <2>3. QED
    BY <2>1, <2>2
<1>6. ASSUME NEW f \in Fetcher,
             \/ Sink(f) \/ Transfer(f) \/ Complete(f) \/ CloseOut(f)
             \/ Cancel(f) \/ CopyChunk(f)
      PROVE  IGone'
  <2>1. job[f] \in Job /\ UNCHANGED <<entry, left>>
    BY <1>6 DEF TypeOK, Sink, Transfer, Complete, CloseOut, Cancel, CopyChunk, files, hist
  <2>2. CASE \E r : Stop(f, r)
    <3>1. PICK r : job' = [job EXCEPT ![f] = [job[f] EXCEPT !.pc = "close", !.why = r]]
      BY <2>2 DEF Stop, Becomes
    <3>2. [job[f] EXCEPT !.pc = "close", !.why = r].pc \in NeedsPart
      BY <2>1 DEF Job, NeedsPart
    <3>3. QED
      BY <1>3, <1>6, <2>1, <3>1, <3>2
  <2>3. CASE Complete(f)
    <3>1. job' = [job EXCEPT ![f] = [job[f] EXCEPT !.pc = "close"]]
      BY <2>3 DEF Complete, Goto, Becomes
    <3>2. [job[f] EXCEPT !.pc = "close"].pc \in NeedsPart
      BY <2>1 DEF Job, NeedsPart
    <3>3. QED
      BY <1>3, <1>6, <2>1, <3>1, <3>2
  <2>4. CASE CopyChunk(f) \/ (Sink(f) /\ ~ \E r : Stop(f, r))
    <3>1. job' = [job EXCEPT ![f] = [job[f] EXCEPT !.got = @ + 1]]
      BY <2>4 DEF Sink, CopyChunk, Becomes
    <3>2. [job[f] EXCEPT !.got = @ + 1].pc = job[f].pc
      BY <2>1 DEF Job
    <3>3. QED
      BY <1>3, <1>6, <2>1, <3>1, <3>2
  <2>5. CASE CloseOut(f)
    <3>1. PICK why : job' = [job EXCEPT ![f] = Closed(f, why)]
      BY <2>5 DEF CloseOut, Becomes
    <3>2. Closed(f, why).pc \in NeedsPart
      BY <2>1 DEF Closed, Job, NeedsPart
    <3>3. QED
      BY <1>3, <1>6, <2>1, <3>1, <3>2
  <2>6. CASE Cancel(f)
    <3>1. job' = [job EXCEPT ![f] = [job[f] EXCEPT !.cancelled = TRUE]]
      BY <2>6 DEF Cancel, Becomes
    <3>2. [job[f] EXCEPT !.cancelled = TRUE].pc = job[f].pc
      BY <2>1 DEF Job
    <3>3. QED
      BY <1>3, <1>6, <2>1, <3>1, <3>2
  <2>7. QED
    BY <1>6, <2>2, <2>3, <2>4, <2>5, <2>6 DEF Transfer
<1>7. ASSUME NEW f \in Fetcher, Publish(f) \/ Fail(f) \/ CopyEnd(f) \/ CopyFails(f)
      PROVE  IGone'
  <2>1. CASE Drop
    BY <2>1 DEF Drop, Name, IGone
  <2>2. CASE Rename(f)
    BY <2>2 DEF Rename, Name, IGone
  <2>3. CASE CopyBegin(f)
    <3>1. PICK to : job' = [job EXCEPT ![f] =
                      [job[f] EXCEPT !.pc = "copy", !.fd = entry["part"], !.to = to, !.got = 0]]
      BY <2>3, Zenon DEF CopyBegin, Becomes
    <3>2. job'[f].pc = "copy"
      BY <3>1 DEF TypeOK, Job
    <3>3. QED
      BY <3>2 DEF IGone, NeedsPart
  <2>4. QED
    BY <1>7, <2>1, <2>2, <2>3 DEF Publish, Fail, NothingMoved, CopyEnd, CopyFails
<1>8. QED
  BY <1>1, <1>2, <1>4, <1>5, <1>6, <1>7 DEF Next, Step, Arrives

(* A fetch that has returned left no .part file, whatever ended it and      *)
(* however many others shared the file; and one that a kill or a failed     *)
(* removal left does not outlive the next fetch that opens it.              *)
THEOREM NothingIsLeft == Spec => []NoDroppings
<1>1. Init => IGone
  BY DEF Init, IGone
<1>2. TypeOK /\ IGone => NoDroppings
  BY DEF IGone, NeedsPart, NoDroppings, At
<1>3. QED
  BY <1>1, <1>2, FetchTypes, GoneNext, PTL DEF Spec

-----------------------------------------------------------------------------
(* One fetch at a time, as in one window or one terminal.                   *)
Alone == \A f, g \in Fetcher : f = g

(* A file that got the first n chunks of x and nothing else.                *)
Written(x, n) == [c \in Chunk |-> IF c < n THEN x ELSE "absent"]
Asking    == {"check", "resolve", "name", "open"}
Streaming == {"stream", "close"}

IJob == job \in [Fetcher -> Job]

(* The file a fetch has open is the one .part names, and holds the chunks   *)
(* it has written; what is published is complete, and what it is copied to  *)
(* holds the chunks copied.                                                 *)
IPart ==
  \A f \in Fetcher :
    /\ job[f].pc \in Asking => job[f].got = 0 /\ job[f].why = ""
    /\ job[f].pc \notin Opened => job[f].fd = None
    /\ job[f].pc # "copy" => job[f].to = None
    /\ job[f].pc \in Streaming =>
         /\ entry["part"] # None /\ job[f].fd = entry["part"]
         /\ data[entry["part"]] = Written(job[f].id, job[f].got)
         /\ job[f].pc = "close" /\ job[f].why = "" => job[f].got = Size
    /\ job[f].pc = "stream" => job[f].why = ""
    /\ job[f].pc = "publish" =>
         entry["part"] # None /\ data[entry["part"]] = Only(job[f].id)
    /\ job[f].pc = "copy" =>
         /\ entry["part"] # None /\ job[f].fd = entry["part"]
         /\ data[entry["part"]] = Only(job[f].id)
         /\ entry["out"] # None /\ job[f].to = entry["out"]
         /\ data[entry["out"]] = Written(job[f].id, job[f].got)
    /\ job[f].pc \notin {"idle"} => job[f].id \in Artifact

IInv == IEntry /\ IJob /\ IPart /\ OutIsWhole

LEMMA Whole == ASSUME NEW x PROVE Written(x, Size) = Only(x)
<1>1. \A c \in Chunk : c < Size
  BY FetchAssumption DEF Chunk
<1>2. QED
  BY <1>1 DEF Written, Only

(* Between two fetches nothing copies.                                      *)
Standing ==
  entry["out"] # None =>
    torn \/ \E x \in Artifact \cup {"user"} : data[entry["out"]] = Only(x)

LEMMA StandsUncopied ==
  ASSUME IInv, Alone, NEW f \in Fetcher, job[f].pc # "copy"
  PROVE  Standing
<1>1. \A g \in Fetcher : ~At(g, "copy")
  BY DEF Alone, At
<1>2. QED
  BY <1>1 DEF IInv, OutIsWhole, Standing

LEMMA StandingIsWhole == Standing' => OutIsWhole'
  BY DEF Standing, OutIsWhole

LEMMA FetchInit == Init => IInv
<1> SUFFICES ASSUME Init PROVE IInv
  OBVIOUS
<1>1. Cardinality(Fetcher) \in Nat
  BY FetchAssumption, FS_CardinalityType
<1>2. IEntry
  BY <1>1, FetchAssumption DEF Init, IEntry, File, Only, Bytes, Name
<1>3. NoJob \in Job /\ NoJob.pc = "idle" /\ NoJob.fd = None /\ NoJob.to = None
  BY NoJobIsJob
<1>4. \A f \in Fetcher : job[f] = NoJob
  BY DEF Init
<1>5. IJob
  BY <1>3 DEF Init, IJob
<1>6. IPart
  BY <1>3, <1>4 DEF IPart, Opened, Streaming, Asking
<1>7. OutIsWhole
  <2>1. 1 \in File
    BY <1>1 DEF File
  <2>2. entry["out"] # None => data[entry["out"]] = Only("user")
    BY <2>1 DEF Init
  <2>3. QED
    BY <2>2 DEF OutIsWhole
<1>8. QED
  BY <1>2, <1>5, <1>6, <1>7 DEF IInv

-----------------------------------------------------------------------------
LEMMA JobStep ==
  ASSUME IJob, Alone, NEW f \in Fetcher, NEW j \in Job, job' = [job EXCEPT ![f] = j]
  PROVE  IJob' /\ job'[f] = j /\ \A g \in Fetcher : g = f
  BY DEF IJob, Alone

(* A fetch that has no file open: before the .part file, or killed.         *)
LEMMA StepBefore ==
  ASSUME IInv, Alone, NEW f \in Fetcher, UNCHANGED <<entry, data, torn>>, job[f].pc # "copy",
         NEW j \in Job, job' = [job EXCEPT ![f] = j],
         j.pc \notin Opened \cup {"publish"}, j.fd = None, j.to = None,
         j.pc # "idle" => j.id \in Artifact, j.pc \in Asking => j.got = 0 /\ j.why = ""
  PROVE  IInv'
<1>1. IJob' /\ job'[f] = j /\ \A g \in Fetcher : g = f
  BY JobStep DEF IInv
<1>2. IEntry'
  BY DEF IInv, IEntry
<1>3. OutIsWhole'
  BY StandsUncopied, StandingIsWhole DEF Standing
<1>4. IPart'
  BY <1>1 DEF IPart, Opened, Streaming
<1>5. QED
  BY <1>1, <1>2, <1>3, <1>4 DEF IInv

LEMMA StepStart ==
  ASSUME IInv, Alone, NEW f \in Fetcher,
         \/ Start(f)
         \/ CheckOutput(f) \/ Resolve(f)
         \/ Kill(f)
  PROVE  IInv'
<1>1. job[f] \in Job
  BY DEF IInv, IJob
<1>2. CASE Start(f)
  <2>1. PICK a \in Artifact, forced \in BOOLEAN :
          job' = [job EXCEPT ![f] = [NoJob EXCEPT !.pc = "check", !.id = a, !.force = forced]]
    BY <1>2 DEF Start
  <2> DEFINE j == [NoJob EXCEPT !.pc = "check", !.id = a, !.force = forced]
  <2>2. /\ j \in Job /\ j.pc = "check" /\ j.fd = None /\ j.to = None /\ j.id \in Artifact
        /\ j.got = 0 /\ j.why = ""
    <3>1. a \in Artifact /\ 0 \in 0 .. Size
      BY FetchAssumption
    <3>2. j \in Job
      BY <3>1, NoJobIsJob DEF Job, Steps
    <3>3. QED
      BY <3>1, <3>2 DEF NoJob
  <2> HIDE DEF j
  <2>3. job[f].pc = "idle" /\ UNCHANGED <<entry, data, torn>>
    BY <1>2 DEF Start, At, files, hist
  <2>4. QED
    BY <2>1, <2>2, <2>3, StepBefore DEF Opened, Asking, j
<1>3. CASE CheckOutput(f) \/ Resolve(f)
  <2>1. /\ UNCHANGED <<entry, data, torn>>
        /\ job[f].pc \in {"check", "resolve", "name"}
        /\ \/ job' = [job EXCEPT ![f] = NoJob]
           \/ \E step \in {"resolve", "name", "open"} :
                job' = [job EXCEPT ![f] = [job[f] EXCEPT !.pc = step]]
    BY <1>3 DEF CheckOutput, Resolve, At, files, hist, Return, Goto, Becomes
  <2>2. CASE job' = [job EXCEPT ![f] = NoJob]
    BY <2>1, <2>2, NoJobIsJob, StepBefore DEF Opened, Asking
  <2>3. ASSUME NEW step \in {"resolve", "name", "open"},
               job' = [job EXCEPT ![f] = [job[f] EXCEPT !.pc = step]]
        PROVE  IInv'
    <3> DEFINE j == [job[f] EXCEPT !.pc = step]
    <3>1. j \in Job /\ j.pc = step /\ j.fd = job[f].fd /\ j.to = job[f].to
        /\ j.id = job[f].id /\ j.got = job[f].got /\ j.why = job[f].why
      BY <1>1 DEF Job, Steps
    <3>2. /\ job[f].fd = None /\ job[f].to = None /\ job[f].id \in Artifact
          /\ job[f].got = 0 /\ job[f].why = ""
      BY <2>1 DEF IInv, IPart, Opened, Asking
    <3> HIDE DEF j
    <3>3. QED
      BY <2>1, <2>3, <3>1, <3>2, StepBefore DEF Opened, Asking, j
  <2>4. QED
    BY <2>1, <2>2, <2>3
<1>4. CASE Kill(f)
  <2>1. /\ UNCHANGED <<entry, data>> /\ job' = [job EXCEPT ![f] = NoJob]
        /\ torn' = IF At(f, "copy") THEN TRUE ELSE torn
    BY <1>4 DEF Kill, Becomes, files
  <2>2. CASE job[f].pc # "copy"
    BY <2>1, <2>2, NoJobIsJob, StepBefore DEF At, Opened, Asking
  <2>3. CASE job[f].pc = "copy"
    <3>1. IJob' /\ job'[f] = NoJob /\ \A g \in Fetcher : g = f
      BY <2>1, NoJobIsJob, JobStep DEF IInv
    <3>2. IEntry' /\ OutIsWhole'
      BY <2>1, <2>3 DEF At, IInv, IEntry, OutIsWhole
    <3>3. IPart'
      BY <3>1, NoJobIsJob DEF IPart, Opened, Streaming, Asking
    <3>4. QED
      BY <3>1, <3>2, <3>3 DEF IInv
  <2>4. QED
    BY <2>2, <2>3
<1>5. QED
  BY <1>2, <1>3, <1>4

(* The .part file is created or cut, and is the one the fetch has open.     *)
LEMMA StepOpen ==
  ASSUME IInv, Alone, NEW f \in Fetcher, OpenPart(f)
  PROVE  IInv'
<1>1. /\ job[f] \in Job /\ job[f].pc = "open" /\ job[f].fd = None /\ job[f].to = None
      /\ job[f].id \in Artifact /\ job[f].got = 0 /\ job[f].why = ""
  BY DEF IInv, IJob, IPart, OpenPart, At, Opened, Asking
<1>2. CASE Return(f, "PermissionDenied") /\ UNCHANGED <<files, left>>
  BY <1>1, <1>2, NoJobIsJob, StepBefore DEF OpenPart, Return, files, Opened, Asking
<1>3. CASE ~(Return(f, "PermissionDenied") /\ UNCHANGED <<files, left>>)
  <2> DEFINE n == IF entry["part"] # None THEN entry["part"] ELSE NewFile
             j == [job[f] EXCEPT !.pc = "stream", !.fd = n]
  <2>1. /\ entry' = [part |-> n, out |-> entry["out"]]
        /\ data' = [data EXCEPT ![n] = Only("absent")]
        /\ job' = [job EXCEPT ![f] = j] /\ torn' = torn
    BY <1>3 DEF OpenPart, Name, Becomes
  <2>2. n \in File /\ n # entry["out"] /\ n # None
    BY RoomForOne, NoFileIsNone DEF IInv, IEntry
  <2> HIDE DEF n
  <2>3. /\ j \in Job /\ j.pc = "stream" /\ j.fd = n /\ j.to = None /\ j.id = job[f].id
        /\ j.got = job[f].got /\ j.why = job[f].why
    BY <1>1, <2>2 DEF Job, Steps
  <2> HIDE DEF j
  <2>4. IJob' /\ job'[f] = j /\ \A g \in Fetcher : g = f
    BY <2>1, <2>3, JobStep DEF IInv
  <2>5. IEntry'
    <3>1. Only("absent") \in [Chunk -> Bytes]
      BY DEF Only, Bytes
    <3>2. QED
      BY <2>1, <2>2, <3>1 DEF IInv, IEntry
  <2>6. OutIsWhole'
    <3>1. Standing
      BY <1>1, StandsUncopied
    <3>2. QED
      BY <2>1, <2>2, <3>1, StandingIsWhole DEF IInv, IEntry, Standing
  <2>7. IPart'
    <3>1. data'[n] = Only("absent")
      BY <2>1, <2>2 DEF IInv, IEntry
    <3>2. Written(j.id, 0) = Only("absent")
      BY DEF Written, Only, Chunk
    <3>3. entry'["part"] = n
      BY <2>1
    <3>4. QED
      BY <1>1, <2>2, <2>3, <2>4, <3>1, <3>2, <3>3 DEF IPart, Opened, Streaming, Asking
  <2>8. QED
    BY <2>4, <2>5, <2>6, <2>7 DEF IInv
<1>4. QED
  BY <1>2, <1>3

(* A step of the transfer: the open file has got what the fetch counts.     *)
LEMMA StepHeld ==
  ASSUME IInv, Alone, NEW f \in Fetcher, UNCHANGED <<entry, torn>>,
         NEW j \in Job, job' = [job EXCEPT ![f] = j],
         job[f].pc \in Streaming, j.pc \in Streaming,
         j.fd = job[f].fd, j.to = job[f].to, j.id = job[f].id,
         data' = [data EXCEPT ![entry["part"]] = Written(j.id, j.got)],
         j.pc = "stream" => j.why = "",
         j.pc = "close" /\ j.why = "" => j.got = Size
  PROVE  IInv'
<1>1. IJob' /\ job'[f] = j /\ \A g \in Fetcher : g = f
  BY JobStep DEF IInv
<1>2. /\ entry["part"] \in File /\ job[f].fd = entry["part"] /\ job[f].id \in Artifact
      /\ entry["part"] # None /\ entry["part"] # entry["out"] /\ job[f].to = None
  BY DEF IInv, IEntry, IPart, Streaming
<1>3. data'[entry["part"]] = Written(j.id, j.got)
  BY <1>2 DEF IInv, IEntry
<1>4. IEntry'
  <2>1. Written(j.id, j.got) \in [Chunk -> Bytes]
    BY <1>2 DEF Written, Bytes
  <2>2. QED
    BY <1>2, <2>1 DEF IInv, IEntry
<1>5. IPart'
  BY <1>1, <1>2, <1>3 DEF IPart, Opened, Streaming, Asking
<1>6. OutIsWhole'
  <2>1. entry["out"] # None => data'[entry["out"]] = data[entry["out"]]
    BY <1>2 DEF IInv, IEntry
  <2>2. Standing
    BY StandsUncopied DEF Streaming
  <2>3. QED
    BY <2>1, <2>2, StandingIsWhole DEF Standing
<1>7. QED
  BY <1>1, <1>4, <1>5, <1>6 DEF IInv

(* The same when no chunk is written.                                       *)
LEMMA StepIdleTransfer ==
  ASSUME IInv, Alone, NEW f \in Fetcher, UNCHANGED <<entry, data, torn>>,
         NEW j \in Job, job' = [job EXCEPT ![f] = j],
         job[f].pc \in Streaming, j.pc \in Streaming,
         j.fd = job[f].fd, j.to = job[f].to, j.id = job[f].id, j.got = job[f].got,
         j.pc = "stream" => j.why = "",
         j.pc = "close" /\ j.why = "" => j.got = Size
  PROVE  IInv'
<1>1. data' = [data EXCEPT ![entry["part"]] = Written(j.id, j.got)]
  BY DEF IInv, IEntry, IPart, Streaming
<1>2. QED
  BY <1>1, StepHeld

LEMMA StepTransfer ==
  ASSUME IInv, Alone, NEW f \in Fetcher, Sink(f) \/ Transfer(f) \/ Complete(f)
  PROVE  IInv'
<1>1. /\ job[f] \in Job /\ job[f].pc = "stream" /\ job[f].id \in Artifact /\ job[f].why = ""
      /\ UNCHANGED <<entry, torn>>
  BY DEF IInv, IJob, IPart, Sink, Transfer, Complete, At, files, hist
<1>2. ASSUME NEW r \in Errors, Stop(f, r), UNCHANGED data
      PROVE  IInv'
  <2> DEFINE j == [job[f] EXCEPT !.pc = "close", !.why = r]
  <2>1. j \in Job /\ j.pc = "close" /\ j.fd = job[f].fd /\ j.to = job[f].to /\ j.id = job[f].id
        /\ j.got = job[f].got /\ j.why # ""
    BY <1>1 DEF Job, Steps, Errors
  <2>2. job' = [job EXCEPT ![f] = j]
    BY <1>2 DEF Stop, Becomes
  <2> HIDE DEF j
  <2>3. QED
    BY <1>1, <1>2, <2>1, <2>2, StepIdleTransfer DEF Streaming
<1>3. CASE Complete(f)
  <2> DEFINE j == [job[f] EXCEPT !.pc = "close"]
  <2>1. j \in Job /\ j.pc = "close" /\ j.fd = job[f].fd /\ j.to = job[f].to /\ j.id = job[f].id
        /\ j.got = job[f].got
    BY <1>1 DEF Job, Steps
  <2>2. job' = [job EXCEPT ![f] = j] /\ UNCHANGED data /\ job[f].got = Size
    BY <1>3 DEF Complete, Goto, Becomes, files
  <2> HIDE DEF j
  <2>3. QED
    BY <1>1, <2>1, <2>2, StepIdleTransfer DEF Streaming
<1>4. CASE Transfer(f)
  <2>1. \E r \in Errors : Stop(f, r) /\ UNCHANGED data
    BY <1>4 DEF Transfer, Errors, files
  <2>2. QED
    BY <1>2, <2>1
<1>5. CASE Sink(f) /\ \E r \in Errors : Stop(f, r) /\ UNCHANGED data
  BY <1>2, <1>5
<1>6. CASE Sink(f) /\ ~ \E r \in Errors : Stop(f, r) /\ UNCHANGED data
  <2> DEFINE got == job[f].got
             id == job[f].id
             j == [job[f] EXCEPT !.got = got + 1]
             row == [c \in Chunk |-> IF c = got THEN id
                       ELSE IF c < got /\ data[entry["part"]][c] = "absent"
                            THEN "hole" ELSE data[entry["part"]][c]]
  <2>1. job[f].fd = entry["part"] /\ data[entry["part"]] = Written(id, got)
        /\ entry["part"] \in File
    BY <1>1 DEF IInv, IPart, IEntry, Streaming
  <2>2. /\ got < Size
        /\ data' = [data EXCEPT ![job[f].fd] =
                 [c \in Chunk |-> IF c = got THEN id
                                  ELSE IF c < got /\ @[c] = "absent"
                                       THEN "hole" ELSE @[c]]]
        /\ job' = [job EXCEPT ![f] = j]
    BY <1>6 DEF Sink, Errors, Becomes
  <2>3. data' = [data EXCEPT ![entry["part"]] = row]
    BY <2>1, <2>2
  <2>4. got \in 0 .. Size /\ Size \in Nat /\ got \in Nat
    <3>1. got \in 0 .. Size
      BY <1>1, Zenon DEF Job
    <3>2. QED
      BY <3>1, FetchAssumption
  <2>5. row = Written(id, got + 1)
    <3>1. id # "absent"
      BY <1>1, FetchAssumption
    <3>2. \A c \in Chunk : data[entry["part"]][c] = IF c < got THEN id ELSE "absent"
      BY <2>1 DEF Written
    <3>3. \A c \in Chunk : row[c] = IF c < got + 1 THEN id ELSE "absent"
      BY <2>4, <3>1, <3>2 DEF Chunk
    <3>4. QED
      BY <3>3 DEF Written
  <2>6. j \in Job /\ j.pc = "stream" /\ j.fd = job[f].fd /\ j.to = job[f].to /\ j.id = id
        /\ j.got = got + 1 /\ j.why = ""
    <3>1. got + 1 \in 0 .. Size
      BY <2>2, <2>4
    <3>2. QED
      BY <1>1, <3>1 DEF Job
  <2> HIDE DEF j, row
  <2>7. QED
    BY <1>1, <2>2, <2>3, <2>5, <2>6, StepHeld DEF Streaming
<1>7. QED
  BY <1>3, <1>4, <1>5, <1>6

(* The stream is closed: what was published whole cannot have been lost.    *)
LEMMA StepClose ==
  ASSUME IInv, Alone, NEW f \in Fetcher, CloseOut(f)
  PROVE  IInv'
<1>1. /\ job[f] \in Job /\ job[f].pc = "close" /\ job[f].id \in Artifact
      /\ job[f].fd = entry["part"] /\ entry["part"] # None
      /\ data[entry["part"]] = Written(job[f].id, job[f].got)
      /\ job[f].why = "" => job[f].got = Size
      /\ entry["part"] \in File /\ entry["part"] # entry["out"] /\ job[f].to = None
      /\ UNCHANGED <<entry, torn>>
  BY DEF IInv, IJob, IPart, IEntry, CloseOut, At, Streaming, hist
<1>2. PICK why \in Errors \cup {""} :
        /\ job' = [job EXCEPT ![f] = Closed(f, why)]
        /\ \/ UNCHANGED data /\ why = job[f].why
           \/ Lost(f) /\ why \in Errors
  <2>1. CASE Becomes(f, Closed(f, job[f].why)) /\ UNCHANGED data
    BY <1>1, <2>1 DEF Becomes, Job
  <2>2. CASE Lost(f) /\ ~(Becomes(f, Closed(f, job[f].why)) /\ UNCHANGED data)
    BY <2>2 DEF CloseOut, Becomes, Errors
  <2>3. QED
    BY <2>1, <2>2 DEF CloseOut
<1> DEFINE j == Closed(f, why)
<1>3. /\ j \in Job /\ j.fd = None /\ j.to = None /\ j.id = job[f].id
      /\ why = "" => j.pc = "publish"
      /\ why # "" => j.pc = "fail"
  BY <1>1 DEF Closed, Job, Steps
<1>4. IJob' /\ job'[f] = j /\ \A g \in Fetcher : g = f
  BY <1>2, <1>3, JobStep DEF IInv
<1> HIDE DEF j
<1>5. \A n \in File : n # entry["part"] => data'[n] = data[n]
  BY <1>1, <1>2 DEF Lost, IInv, IEntry
<1>6. IEntry'
  <2>1. CASE UNCHANGED data
    BY <1>1, <2>1 DEF IInv, IEntry
  <2>2. CASE Lost(f)
    <3> DEFINE row == [data[entry["part"]] EXCEPT ![Size - 1] = "lost"]
    <3>1. row \in [Chunk -> Bytes]
      BY <1>1 DEF IInv, IEntry, Bytes
    <3>2. data' = [data EXCEPT ![entry["part"]] = row]
      BY <1>1, <2>2 DEF Lost
    <3> HIDE DEF row
    <3>3. QED
      BY <1>1, <3>1, <3>2 DEF IInv, IEntry
  <2>3. QED
    BY <1>2, <2>1, <2>2
<1>7. OutIsWhole'
  <2>1. Standing
    BY <1>1, StandsUncopied
  <2>2. QED
    BY <1>1, <1>5, <2>1, StandingIsWhole DEF IInv, IEntry, Standing
<1>8. IPart'
  <2>1. CASE j.pc = "publish"
    <3>1. UNCHANGED data /\ job[f].got = Size
      BY <1>1, <1>2, <1>3, <2>1 DEF Errors
    <3>2. data'[entry'["part"]] = Only(j.id)
      BY <1>1, <1>3, <3>1, Whole
    <3>3. QED
      BY <1>1, <1>3, <1>4, <2>1, <3>2 DEF IPart, Opened, Streaming, Asking
  <2>2. CASE j.pc = "fail"
    BY <1>1, <1>3, <1>4, <2>2 DEF IPart, Opened, Streaming, Asking
  <2>3. QED
    BY <1>3, <2>1, <2>2
<1>9. QED
  BY <1>4, <1>6, <1>7, <1>8 DEF IInv

(* The fetch is over.                                                       *)
LEMMA StepReturn ==
  ASSUME IInv, Alone, NEW f \in Fetcher, job' = [job EXCEPT ![f] = NoJob],
         IEntry', Standing'
  PROVE  IInv'
<1>1. IJob' /\ job'[f] = NoJob /\ \A g \in Fetcher : g = f
  BY NoJobIsJob, JobStep DEF IInv
<1>2. IPart'
  BY <1>1, NoJobIsJob DEF IPart, Opened, Streaming, Asking
<1>3. QED
  BY <1>1, <1>2, StandingIsWhole DEF IInv

(* fs::remove leaves the destination as it is.                              *)
LEMMA DropKeepsOut ==
  ASSUME IInv, Drop, data' = data
  PROVE  IEntry' /\ entry'["out"] = entry["out"]
<1>1. entry' = [part |-> None, out |-> entry["out"]] \/ entry' = entry
  BY DEF Drop, Name
<1>2. QED
  BY <1>1 DEF IInv, IEntry

(* The .part file becomes what it is published as, or is dropped, or copied.*)
LEMMA StepPublish ==
  ASSUME IInv, Alone, NEW f \in Fetcher, Publish(f) \/ Fail(f)
  PROVE  IInv'
<1>1. job[f].pc \in {"publish", "fail"} /\ job[f].fd = None /\ job[f] \in Job
  BY DEF IInv, IJob, IPart, Publish, Fail, At, Opened
<1>2. entry["out"] = entry["part"] => entry["out"] = None
  BY DEF IInv, IEntry
<1>3. CASE Fail(f) \/ NothingMoved(f)
  <2>1. Drop /\ UNCHANGED <<data, torn>> /\ job' = [job EXCEPT ![f] = NoJob]
    BY <1>3 DEF Fail, NothingMoved, Return
  <2>2. IEntry' /\ entry'["out"] = entry["out"]
    BY <2>1, DropKeepsOut
  <2>3. Standing
    BY <1>1, StandsUncopied
  <2>4. Standing'
    BY <2>1, <2>2, <2>3 DEF Standing
  <2>5. QED
    BY <2>1, <2>2, <2>4, StepReturn
<1>4. CASE Publish(f) /\ ~NothingMoved(f)
  <2>1. /\ job[f].id \in Artifact /\ data[entry["part"]] = Only(job[f].id)
        /\ entry["part"] \in File /\ entry["part"] # None
    BY <1>4 DEF IInv, IPart, IEntry, Publish, At
  <2>2. CASE Rename(f)
    <3>1. entry' = [part |-> None, out |-> entry["part"]] /\ UNCHANGED data
        /\ job' = [job EXCEPT ![f] = NoJob]
      BY <2>2 DEF Rename, Name, Return
    <3>2. IEntry' /\ Standing'
      BY <2>1, <3>1 DEF IInv, IEntry, Standing
    <3>3. QED
      BY <3>1, <3>2, StepReturn
  <2>3. CASE CopyBegin(f)
    <3> DEFINE to == IF entry["out"] # None THEN entry["out"] ELSE NewFile
               j == [job[f] EXCEPT !.pc = "copy", !.fd = entry["part"], !.to = to, !.got = 0]
    <3>1. /\ entry' = [part |-> entry["part"], out |-> to]
          /\ data' = [data EXCEPT ![to] = Only("absent")]
          /\ job' = [job EXCEPT ![f] = j]
      BY <2>3, Zenon DEF CopyBegin, Name, Becomes
    <3>2. to \in File /\ to # None /\ to # entry["part"]
      BY <1>2, <2>1, RoomForOne DEF IInv, IEntry
    <3> HIDE DEF to
    <3>3. /\ j \in Job /\ j.pc = "copy" /\ j.fd = entry["part"] /\ j.to = to
          /\ j.id = job[f].id /\ j.got = 0
      <4>1. 0 \in 0 .. Size
        BY FetchAssumption
      <4>2. QED
        BY <1>1, <2>1, <3>2, <4>1 DEF Job, Steps
    <3> HIDE DEF j
    <3>4. IJob' /\ job'[f] = j /\ \A g \in Fetcher : g = f
      BY <3>1, <3>3, JobStep DEF IInv
    <3>5. Only("absent") \in [Chunk -> Bytes] /\ Written(j.id, 0) = Only("absent")
      BY DEF Only, Bytes, Written, Chunk
    <3>6. IEntry' /\ entry'["part"] = entry["part"] /\ entry'["out"] = to
      BY <2>1, <3>1, <3>2, <3>5 DEF IInv, IEntry
    <3>7. data'[to] = Only("absent") /\ data'[entry["part"]] = data[entry["part"]]
      BY <2>1, <3>1, <3>2 DEF IInv, IEntry
    <3>8. OutIsWhole'
      BY <3>3, <3>4 DEF OutIsWhole, At
    <3>9. IPart'
      BY <2>1, <3>2, <3>3, <3>4, <3>5, <3>6, <3>7 DEF IPart, Opened, Streaming, Asking
    <3>10. QED
      BY <3>4, <3>6, <3>8, <3>9 DEF IInv
  <2>4. QED
    BY <1>4, <2>2, <2>3 DEF Publish
<1>5. QED
  BY <1>3, <1>4

(* The copy: a chunk more, all of them, or no more of them.                 *)
LEMMA StepCopy ==
  ASSUME IInv, Alone, NEW f \in Fetcher, CopyChunk(f) \/ CopyEnd(f) \/ CopyFails(f)
  PROVE  IInv'
<1>1. /\ job[f] \in Job /\ job[f].pc = "copy" /\ job[f].id \in Artifact
      /\ job[f].fd = entry["part"] /\ job[f].to = entry["out"]
      /\ entry["part"] # None /\ entry["out"] # None
      /\ data[entry["part"]] = Only(job[f].id)
      /\ data[entry["out"]] = Written(job[f].id, job[f].got)
      /\ entry["part"] \in File /\ entry["out"] \in File /\ entry["part"] # entry["out"]
      /\ job[f].got \in 0 .. Size
  BY DEF IInv, IJob, IPart, IEntry, CopyChunk, CopyEnd, CopyFails, At, Job
<1>2. More(f) <=> job[f].got < Size
  BY <1>1, FetchAssumption DEF More, Only, Chunk
<1>3. CASE CopyEnd(f)
  <2>1. Drop /\ data' = data /\ job' = [job EXCEPT ![f] = NoJob]
    BY <1>3 DEF CopyEnd, Return
  <2>2. IEntry' /\ entry'["out"] = entry["out"]
    BY <2>1, DropKeepsOut
  <2>3. job[f].got = Size
    BY <1>1, <1>2, <1>3, FetchAssumption DEF CopyEnd
  <2>4. Standing'
    BY <1>1, <2>1, <2>2, <2>3, Whole DEF Standing
  <2>5. QED
    BY <2>1, <2>2, <2>4, StepReturn
<1>4. CASE CopyFails(f)
  <2>1. Drop /\ data' = data /\ job' = [job EXCEPT ![f] = NoJob] /\ torn'
    BY <1>4 DEF CopyFails, Return
  <2>2. IEntry' /\ Standing'
    BY <2>1, DropKeepsOut DEF Standing
  <2>3. QED
    BY <2>1, <2>2, StepReturn
<1>5. CASE CopyChunk(f)
  <2> DEFINE got == job[f].got
             id == job[f].id
             row == [data[entry["out"]] EXCEPT ![got] = data[entry["part"]][got]]
             j == [job[f] EXCEPT !.got = got + 1]
  <2>1. /\ got < Size /\ entry' = entry
        /\ data' = [data EXCEPT ![entry["out"]] = row]
        /\ job' = [job EXCEPT ![f] = j]
    BY <1>1, <1>2, <1>5 DEF CopyChunk, Becomes
  <2>2. got \in Chunk /\ got + 1 \in 0 .. Size
    BY <1>1, <2>1, FetchAssumption DEF Chunk
  <2>3. row = Written(id, got + 1)
    <3>1. data[entry["part"]][got] = id
      BY <1>1, <2>2 DEF Only
    <3>2. row = [Written(id, got) EXCEPT ![got] = id]
      BY <1>1, <3>1
    <3>3. \A c \in Chunk : c < got + 1 <=> c < got \/ c = got
      BY <1>1, FetchAssumption DEF Chunk
    <3>4. QED
      BY <2>2, <3>2, <3>3 DEF Written
  <2>4. /\ j \in Job /\ j.pc = "copy" /\ j.fd = job[f].fd /\ j.to = job[f].to /\ j.id = id
        /\ j.got = got + 1
    BY <1>1, <2>2 DEF Job
  <2>5. Written(id, got + 1) \in [Chunk -> Bytes]
    BY <1>1 DEF Written, Bytes
  <2> HIDE DEF row, j
  <2>6. IJob' /\ job'[f] = j /\ \A g \in Fetcher : g = f
    BY <2>1, <2>4, JobStep DEF IInv
  <2>7. IEntry'
    BY <1>1, <2>1, <2>3, <2>5 DEF IInv, IEntry
  <2>8. /\ data'[entry["out"]] = Written(id, got + 1)
        /\ data'[entry["part"]] = data[entry["part"]]
    BY <1>1, <2>1, <2>3 DEF IInv, IEntry
  <2>9. OutIsWhole'
    BY <2>4, <2>6 DEF OutIsWhole, At
  <2>10. IPart'
    BY <1>1, <2>1, <2>4, <2>6, <2>8 DEF IPart, Opened, Streaming, Asking
  <2>11. QED
    BY <2>6, <2>7, <2>9, <2>10 DEF IInv
<1>6. QED
  BY <1>3, <1>4, <1>5

(* The token is set; the fetch goes on until a callback looks at it.        *)
LEMMA StepCancel ==
  ASSUME IInv, Alone, NEW f \in Fetcher, Cancel(f)
  PROVE  IInv'
<1> DEFINE j == [job[f] EXCEPT !.cancelled = TRUE]
<1>1. job[f] \in Job /\ UNCHANGED <<entry, data, torn>> /\ job' = [job EXCEPT ![f] = j]
  BY DEF IInv, IJob, Cancel, Becomes, files, hist
<1>2. /\ j \in Job /\ j.pc = job[f].pc /\ j.id = job[f].id /\ j.fd = job[f].fd
      /\ j.to = job[f].to
      /\ j.got = job[f].got /\ j.why = job[f].why
  BY <1>1 DEF Job
<1> HIDE DEF j
<1>3. IJob' /\ job'[f] = j /\ \A g \in Fetcher : g = f
  BY <1>1, <1>2, JobStep DEF IInv
<1>4. IEntry' /\ OutIsWhole'
  <2>1. \A g \in Fetcher : job'[g].pc = job[g].pc
    BY <1>2, <1>3
  <2>2. QED
    BY <1>1, <2>1 DEF IInv, IEntry, OutIsWhole, At
<1>5. IPart'
  <2>1. /\ job[f].pc \in Asking => job[f].got = 0 /\ job[f].why = ""
        /\ job[f].pc \notin Opened => job[f].fd = None
        /\ job[f].pc # "copy" => job[f].to = None
        /\ job[f].pc = "stream" => job[f].why = ""
        /\ job[f].pc \notin {"idle"} => job[f].id \in Artifact
    BY DEF IInv, IPart
  <2>2. /\ job[f].pc \in Streaming =>
             /\ entry["part"] # None /\ job[f].fd = entry["part"]
             /\ data[entry["part"]] = Written(job[f].id, job[f].got)
             /\ job[f].pc = "close" /\ job[f].why = "" => job[f].got = Size
        /\ job[f].pc = "publish" =>
             entry["part"] # None /\ data[entry["part"]] = Only(job[f].id)
    BY DEF IInv, IPart
  <2>3. job[f].pc = "copy" =>
             /\ entry["part"] # None /\ job[f].fd = entry["part"]
             /\ data[entry["part"]] = Only(job[f].id)
             /\ entry["out"] # None /\ job[f].to = entry["out"]
             /\ data[entry["out"]] = Written(job[f].id, job[f].got)
    BY DEF IInv, IPart
  <2>4. entry' = entry /\ data' = data
    BY <1>1
  <2>5. QED
    BY <1>2, <1>3, <2>1, <2>2, <2>3, <2>4 DEF IPart
<1>6. QED
  BY <1>3, <1>4, <1>5 DEF IInv

(* The user saves a file where there is none.                               *)
LEMMA StepSave == ASSUME IInv, Alone, Save PROVE IInv'
<1>1. /\ entry["out"] = None /\ UNCHANGED <<job, torn>>
      /\ entry' = [part |-> entry["part"], out |-> NewFile]
      /\ data' = [data EXCEPT ![NewFile] = Only("user")]
  BY DEF Save, Name, hist
<1>2. NewFile \in File /\ NewFile # entry["part"]
  BY RoomForOne
<1>3. IEntry'
  <2>1. Only("user") \in [Chunk -> Bytes]
    BY DEF Only, Bytes
  <2>2. QED
    BY <1>1, <1>2, <2>1 DEF IInv, IEntry
<1>4. entry'["part"] = entry["part"] /\ (entry["part"] # None => data'[entry["part"]] = data[entry["part"]])
  BY <1>1, <1>2 DEF IInv, IEntry
<1>5. IPart'
  BY <1>1, <1>4 DEF IInv, IPart, Opened, Streaming
<1>6. OutIsWhole'
  BY <1>1, <1>2 DEF IInv, IEntry, OutIsWhole
<1>7. QED
  BY <1>1, <1>3, <1>4, <1>5, <1>6 DEF IInv, IJob

LEMMA FetchNext == ASSUME IInv, Alone, [Next]_vars PROVE IInv'
<1>1. CASE UNCHANGED vars
  BY <1>1 DEF vars, files, hist, IInv, IEntry, IJob, IPart, OutIsWhole, At
<1>2. CASE Save
  BY <1>2, StepSave
<1>3. ASSUME NEW f \in Fetcher, Start(f) \/ Kill(f)
      PROVE  IInv'
  BY <1>3, StepStart
<1>4. ASSUME NEW f \in Fetcher, Cancel(f)
      PROVE  IInv'
  BY <1>4, StepCancel
<1>5. ASSUME NEW f \in Fetcher, Step(f) \/ Arrives(f)
      PROVE  IInv'
  BY <1>5, StepStart, StepOpen, StepTransfer, StepClose, StepPublish, StepCopy DEF Step, Arrives
<1>6. QED
  BY <1>1, <1>2, <1>3, <1>4, <1>5 DEF Next

(* With one fetch at a time, what lies at the destination is the user's or  *)
(* a whole artifact, whichever callback a fetch fails, is cancelled or is   *)
(* killed at; but for the copy that stands in for a rename, while it is     *)
(* under way and after it failed or was killed.                             *)
THEOREM DestinationIsWhole == Alone /\ Spec => []OutIsWhole
<1> SUFFICES ASSUME Alone PROVE Spec => []OutIsWhole
  OBVIOUS
<1>1. Init => IInv
  BY FetchInit
<1>2. IInv /\ [Next]_vars => IInv'
  BY FetchNext
<1>3. IInv => OutIsWhole
  BY DEF IInv
<1>4. QED
  BY <1>1, <1>2, <1>3, PTL DEF Spec

-----------------------------------------------------------------------------
IResult == DOMAIN result = Fetcher

LEMMA ResultNext == ASSUME IResult, [Next]_vars PROVE IResult'
<1>1. CASE Save \/ UNCHANGED vars
  BY <1>1 DEF IResult, Save, vars
<1>2. ASSUME NEW f \in Fetcher, Start(f) \/ Cancel(f) \/ Kill(f)
      PROVE  IResult'
  BY <1>2 DEF IResult, Start, Cancel, Kill, Becomes
<1>3. ASSUME NEW f \in Fetcher, Arrives(f)
      PROVE  IResult'
  BY <1>3 DEF IResult, Arrives, Sink, Complete, Becomes, Stop, Goto
<1>4. ASSUME NEW f \in Fetcher, Step(f)
      PROVE  IResult'
  BY <1>4 DEF IResult, Step, CheckOutput, Resolve, OpenPart, Transfer, CloseOut, Fail,
              Publish, Rename, CopyBegin, NothingMoved, CopyChunk, CopyEnd, CopyFails,
              Becomes, Stop, Goto, Return
<1>5. QED
  BY <1>1, <1>2, <1>3, <1>4 DEF Next

(* A step that reports success has just put the artifact in place.          *)
LEMMA SuccessNext == ASSUME IInv, IResult, Alone, [Next]_vars PROVE [SuccessStep]_vars
<1> SUFFICES ASSUME NEW f \in Fetcher, result[f] = "none", result'[f] = "ok"
             PROVE  entry'["out"] # None /\ data'[entry'["out"]] = Only(job[f].id)
  BY DEF SuccessStep
<1>1. \A g \in Fetcher : g = f
  BY DEF Alone
<1>2. CASE Publish(f)
  <2>1. data[entry["part"]] = Only(job[f].id) /\ entry["part"] # None /\ entry["part"] \in File
    BY <1>2 DEF IInv, IPart, IEntry, Publish, At
  <2>2. CASE Rename(f)
    BY <2>1, <2>2 DEF Rename, Name
  <2>3. CASE CopyBegin(f)
    BY <2>3 DEF CopyBegin, Becomes
  <2>4. CASE NothingMoved(f)
    BY <2>4 DEF NothingMoved, Return, IResult
  <2>5. QED
    BY <1>2, <2>2, <2>3, <2>4 DEF Publish
<1>3. CASE Save \/ UNCHANGED vars
  BY <1>3 DEF Save, vars
<1>4. CASE Start(f) \/ Cancel(f) \/ Kill(f) \/ Arrives(f)
  BY <1>4 DEF IResult, Start, Cancel, Kill, Arrives, Sink, Complete, Becomes, Stop, Goto
<1>5. CASE CheckOutput(f) \/ Resolve(f) \/ OpenPart(f) \/ Transfer(f) \/ CloseOut(f)
  BY <1>5 DEF IResult, CheckOutput, Resolve, OpenPart, Transfer, CloseOut,
              Becomes, Stop, Goto, Return
<1>6. CASE Fail(f)
  BY <1>6 DEF IResult, IInv, IJob, Job, Errors, Fail, Return
<1>7. CASE CopyEnd(f)
  <2>1. /\ job[f].got = Size /\ data[entry["out"]] = Written(job[f].id, job[f].got)
        /\ entry["out"] # None
    <3>1. /\ job[f].pc = "copy" /\ job[f].fd = entry["part"] /\ job[f].got \in 0 .. Size
          /\ data[entry["part"]] = Only(job[f].id) /\ job[f].id \in Artifact
          /\ data[entry["out"]] = Written(job[f].id, job[f].got) /\ entry["out"] # None
      BY <1>7 DEF IInv, IJob, IPart, Job, CopyEnd, At
    <3>2. QED
      BY <1>7, <3>1, FetchAssumption DEF CopyEnd, More, Only, Chunk
  <2>2. data' = data /\ Drop
    BY <1>7 DEF CopyEnd
  <2>3. entry'["out"] = entry["out"]
    BY <2>2, DropKeepsOut
  <2>4. QED
    BY <2>1, <2>2, <2>3, Whole
<1>8. CASE CopyChunk(f) \/ CopyFails(f)
  BY <1>8 DEF IResult, CopyChunk, CopyFails, Becomes, Return
<1>9. QED
  BY <1>1, <1>2, <1>3, <1>4, <1>5, <1>6, <1>7, <1>8 DEF Next, Step

(* With one fetch at a time, success means that the destination holds the   *)
(* artifact that was asked for.                                             *)
THEOREM SuccessIsDelivery == Alone /\ Spec => DeliversWhatWasAsked
<1> SUFFICES ASSUME Alone PROVE Spec => DeliversWhatWasAsked
  OBVIOUS
<1>1. Init => IInv /\ IResult
  BY FetchInit DEF Init, IResult
<1>2. IInv /\ IResult /\ [Next]_vars => IInv' /\ IResult'
  BY FetchNext, ResultNext
<1>3. IInv /\ IResult /\ [Next]_vars => [SuccessStep]_vars
  BY SuccessNext
<1>4. QED
  BY <1>1, <1>2, <1>3, PTL DEF Spec, DeliversWhatWasAsked
=============================================================================
