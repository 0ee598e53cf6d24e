------------------------------ MODULE ImageFetch ------------------------------
(***************************************************************************)
(* ImageService::fetch: an artifact is resolved, streamed into a .part file *)
(* next to its destination, and renamed into place, or copied where it      *)
(* cannot be.  Several processes (the GUI, `kli fetch`) may fetch to one     *)
(* destination, be killed and run again.                                    *)
(*                                                                          *)
(* Directory entries name files, and an open stream keeps its file whatever *)
(* becomes of the name.  A file is a row of chunks; a chunk says whose      *)
(* bytes it holds.  One action per callback of the transfer, and per chunk  *)
(* of the copy, which is no more atomic than the transfer is.               *)
(*                                                                          *)
(* Assumed of the server: it announces the artifact's length, as the store  *)
(* of the workflow artifacts does, so that curl fails a transfer that ends  *)
(* before it.                                                               *)
(***************************************************************************)
EXTENDS Integers, Sequences, FiniteSets

CONSTANTS
  Fetcher,     \* the processes
  Artifact,    \* the artifacts one may ask for
  Size,        \* bound: chunks of an artifact
  None,        \* no file
  MaxFetches   \* bound: fetches started

ASSUME FetchAssumption ==
  /\ Size \in Nat \ {0} /\ MaxFetches \in Nat
  /\ IsFiniteSet(Fetcher) /\ None \notin Nat
  /\ Artifact \cap {"absent", "hole", "user", "lost"} = {}

VARIABLES
  entry,     \* the directory: the files "part" and "out" name
  data,      \* what each file holds
  job,       \* a fetch's locals: see Job
  result,    \* what a fetcher's last fetch returned
  fetches,   \* fetches started
  left,      \* history: who last had the .part file open could not drop it
  torn       \* history: the last copy to the destination was cut short

files == <<entry, data>>
hist == <<left, torn>>
vars == <<files, job, result, fetches, hist>>

File == 1 .. (3 + 2 * Cardinality(Fetcher))
Chunk == 0 .. Size - 1
Bytes == Artifact \cup {"absent", "hole", "user", "lost"}
Only(x) == [c \in Chunk |-> x]

Steps == {"idle", "check", "resolve", "name", "open", "stream", "close", "fail", "publish",
          "copy"}
Errors == {"Exists", "NotFound", "PermissionDenied", "NetworkFailure", "DiskFull",
           "WriteFailed", "UserCancelled", "NotMoved"}

(* Where the fetch stands, what it fetches and whether it may overwrite,    *)
(* the file it has open and the one it copies that to, the chunks written,  *)
(* the failure to report, and what its CancelToken answers.                 *)
Job == [pc : Steps, id : Artifact \cup {None}, force : BOOLEAN, fd : File \cup {None},
        to : File \cup {None}, got : 0 .. Size, why : Errors \cup {""}, cancelled : BOOLEAN]
NoJob == [pc |-> "idle", id |-> None, force |-> FALSE, fd |-> None, to |-> None,
          got |-> 0, why |-> "", cancelled |-> FALSE]

TypeOK ==
  /\ entry \in [{"part", "out"} -> File \cup {None}]
  /\ entry["part"] = entry["out"] => entry["out"] = None
  /\ data \in [File -> [Chunk -> Bytes]]
  /\ job \in [Fetcher -> Job]
  /\ \A f \in Fetcher : /\ job[f].fd # None <=> job[f].pc \in {"stream", "close", "copy"}
                        /\ job[f].to # None <=> job[f].pc = "copy"
  /\ result \in [Fetcher -> Errors \cup {"none", "ok"}]
  /\ fetches \in 0 .. MaxFetches
  /\ left \in BOOLEAN /\ torn \in BOOLEAN

Init ==
  /\ \E out \in {None, 1} : entry = [part |-> None, out |-> out]
  /\ data = [n \in File |-> Only("user")]
  /\ job = [f \in Fetcher |-> NoJob]
  /\ result = [f \in Fetcher |-> "none"] /\ fetches = 0
  /\ left = FALSE /\ torn = FALSE

-----------------------------------------------------------------------------
At(f, step) == job[f].pc = step
Becomes(f, j) == job' = [job EXCEPT ![f] = j] /\ UNCHANGED result
Goto(f, step) == Becomes(f, [job[f] EXCEPT !.pc = step])
Stop(f, r) == Becomes(f, [job[f] EXCEPT !.pc = "close", !.why = r])
Return(f, r) == job' = [job EXCEPT ![f] = NoJob] /\ result' = [result EXCEPT ![f] = r]

Name(part, out) == entry' = [part |-> part, out |-> out]
NewFile == CHOOSE n \in File : /\ n \notin {entry["part"], entry["out"]}
                               /\ \A f \in Fetcher : n \notin {job[f].fd, job[f].to}

(* kli fetch, or the dialog's choice; an identifier of no known scheme is   *)
(* refused before anything else.                                            *)
Start(f) ==
  /\ At(f, "idle") /\ fetches < MaxFetches
  /\ fetches' = fetches + 1
  /\ \E a \in Artifact, forced \in BOOLEAN :
       job' = [job EXCEPT ![f] = [NoJob EXCEPT !.pc = "check", !.id = a, !.force = forced]]
  /\ result' = [result EXCEPT ![f] = "none"]
  /\ UNCHANGED <<files, hist>>

Taken(f) == entry["out"] # None /\ ~job[f].force

(* A file target that exists is refused before the network is used, and so  *)
(* is a directory that does not; in a directory the name is still unknown.  *)
CheckOutput(f) ==
  /\ At(f, "check")
  /\ \/ IF Taken(f) THEN Return(f, "Exists") ELSE Goto(f, "resolve")
     \/ Return(f, "NotFound")
     \/ Goto(f, "name")
  /\ UNCHANGED <<files, hist>>

(* provider->resolve: a malformed, unknown or expired identifier, no token, *)
(* a request that fails; then the check that had to wait for the name.      *)
Resolve(f) ==
  /\ At(f, "resolve") \/ At(f, "name")
  /\ \/ IF At(f, "name") /\ Taken(f) THEN Return(f, "Exists") ELSE Goto(f, "open")
     \/ \E r \in {"NotFound", "PermissionDenied", "NetworkFailure"} : Return(f, r)
  /\ UNCHANGED <<files, hist>>

(* The .part file is created, or the one that is there is cut to nothing.   *)
OpenPart(f) ==
  /\ At(f, "open")
  /\ \/ LET n == IF entry["part"] # None THEN entry["part"] ELSE NewFile
        IN /\ Name(n, entry["out"])
           /\ data' = [data EXCEPT ![n] = Only("absent")]
           /\ Becomes(f, [job[f] EXCEPT !.pc = "stream", !.fd = n])
           /\ left' = FALSE
     \/ Return(f, "PermissionDenied") /\ UNCHANGED <<files, left>>
  /\ UNCHANGED torn

(* The sink: the token, then a chunk at the stream's own offset; what lies  *)
(* before it and was cut off by another writer reads as zeroes.             *)
Sink(f) ==
  /\ At(f, "stream") /\ job[f].got < Size
  /\ IF job[f].cancelled THEN Stop(f, "UserCancelled") /\ UNCHANGED data
     ELSE \/ /\ data' = [data EXCEPT ![job[f].fd] =
                 [c \in Chunk |-> IF c = job[f].got THEN job[f].id
                                  ELSE IF c < job[f].got /\ @[c] = "absent"
                                       THEN "hole" ELSE @[c]]]
             /\ Becomes(f, [job[f] EXCEPT !.got = @ + 1])
          \/ Stop(f, "WriteFailed") /\ UNCHANGED data
  /\ UNCHANGED <<entry, hist>>

\* Mutant: a line that brings nothing is waited for.
TransferWaits(f) ==
  /\ At(f, "stream")
  /\ job[f].cancelled /\ Stop(f, "UserCancelled")
  /\ UNCHANGED <<files, hist>>

(* The progress callback: the token, then, once, the free space; and what   *)
(* curl reports of the transfer itself: a connection that breaks, or brings *)
(* less than 1 KiB/s for 30 s, a status from 400 up.                        *)
Transfer(f) ==
  /\ At(f, "stream")
  /\ \/ job[f].cancelled /\ Stop(f, "UserCancelled")
     \/ \E r \in {"DiskFull", "NetworkFailure", "NotFound", "PermissionDenied"} : Stop(f, r)
  /\ UNCHANGED <<files, hist>>

(* The last byte of the announced length has come.                          *)
Complete(f) ==
  /\ At(f, "stream") /\ job[f].got = Size
  /\ Goto(f, "close")
  /\ UNCHANGED <<files, hist>>

Closed(f, why) == [job[f] EXCEPT !.fd = None, !.why = why,
                                 !.pc = IF why = "" THEN "publish" ELSE "fail"]
Lost(f) == data' = [data EXCEPT ![job[f].fd][Size - 1] = "lost"]

\* Mutant: what the last flush says is not asked.
CloseUnchecked(f) ==
  /\ At(f, "close")
  /\ Becomes(f, Closed(f, job[f].why))
  /\ UNCHANGED data \/ Lost(f)
  /\ UNCHANGED <<entry, hist>>

(* close() flushes: what cannot be written any more fails the fetch, before *)
(* every other reason but the full disk.                                    *)
CloseOut(f) ==
  /\ At(f, "close")
  /\ \/ Becomes(f, Closed(f, job[f].why)) /\ UNCHANGED data
     \/ /\ Becomes(f, Closed(f, IF job[f].why = "DiskFull" THEN "DiskFull" ELSE "WriteFailed"))
        /\ Lost(f)
  /\ UNCHANGED <<entry, hist>>

(* fs::remove of the .part file, whose own failure nobody asks for.         *)
Drop ==
  \/ Name(None, entry["out"]) /\ UNCHANGED left
  \/ entry["part"] # None /\ left' = TRUE /\ UNCHANGED entry

\* Mutant: an error is returned without a look at the .part file.
FailKeepsPart(f) ==
  /\ At(f, "fail")
  /\ Return(f, job[f].why)
  /\ UNCHANGED <<files, hist>>

(* Every failure drops the .part file first.                                *)
Fail(f) ==
  /\ At(f, "fail")
  /\ Drop
  /\ Return(f, job[f].why)
  /\ UNCHANGED <<data, torn>>

(* The rename takes the old file's place.                                   *)
Rename(f) ==
  /\ entry["part"] # None
  /\ Name(None, entry["part"])
  /\ Return(f, "ok")
  /\ torn' = FALSE
  /\ UNCHANGED <<data, left>>

(* Where it fails, copy_file opens both, and cuts the destination off; or   *)
(* cannot open one of them.                                                 *)
CopyBegin(f) ==
  /\ entry["part"] # None
  /\ LET to == IF entry["out"] # None THEN entry["out"] ELSE NewFile
     IN /\ Name(entry["part"], to)
        /\ data' = [data EXCEPT ![to] = Only("absent")]
        /\ Becomes(f, [job[f] EXCEPT !.pc = "copy", !.fd = entry["part"], !.to = to, !.got = 0])
  /\ UNCHANGED hist

NothingMoved(f) ==
  /\ Drop
  /\ Return(f, "NotMoved")
  /\ UNCHANGED <<data, torn>>

\* Mutant: a fetch that was cancelled, or lost its line, is published.
PublishAll(f) ==
  /\ At(f, "publish") \/ At(f, "fail")
  /\ Rename(f)

Publish(f) ==
  /\ At(f, "publish")
  /\ Rename(f) \/ CopyBegin(f) \/ NothingMoved(f)

(* The copy, to the end of the file it reads; whatever becomes of it, the   *)
(* .part file goes, and the destination stays as far as it was written.     *)
More(f) == job[f].got < Size /\ data[job[f].fd][job[f].got] # "absent"

CopyChunk(f) ==
  /\ At(f, "copy") /\ More(f)
  /\ data' = [data EXCEPT ![job[f].to][job[f].got] = data[job[f].fd][job[f].got]]
  /\ Becomes(f, [job[f] EXCEPT !.got = @ + 1])
  /\ UNCHANGED <<entry, hist>>

CopyEnd(f) ==
  /\ At(f, "copy") /\ ~More(f)
  /\ Drop
  /\ Return(f, "ok")
  /\ torn' = FALSE
  /\ UNCHANGED data

CopyFails(f) ==
  /\ At(f, "copy")
  /\ Drop
  /\ Return(f, "NotMoved")
  /\ torn' = TRUE
  /\ UNCHANGED data

Step(f) ==
  /\ \/ CheckOutput(f) \/ Resolve(f) \/ OpenPart(f) \/ Transfer(f) \/ CloseOut(f)
     \/ Fail(f) \/ Publish(f) \/ CopyChunk(f) \/ CopyEnd(f) \/ CopyFails(f)
  /\ UNCHANGED fetches

Arrives(f) ==
  /\ Sink(f) \/ Complete(f)
  /\ UNCHANGED fetches

-----------------------------------------------------------------------------
(* Ctrl-C or the Cancel button; SIGKILL; and the user, who saves a file     *)
(* under the destination's name.                                            *)
Cancel(f) ==
  /\ ~At(f, "idle") /\ ~job[f].cancelled
  /\ Becomes(f, [job[f] EXCEPT !.cancelled = TRUE])
  /\ UNCHANGED <<files, fetches, hist>>

Kill(f) ==
  /\ ~At(f, "idle")
  /\ Becomes(f, NoJob)
  /\ left' = TRUE
  /\ torn' = IF At(f, "copy") THEN TRUE ELSE torn
  /\ UNCHANGED <<files, fetches>>

Save ==
  /\ entry["out"] = None
  /\ Name(entry["part"], NewFile)
  /\ data' = [data EXCEPT ![NewFile] = Only("user")]
  /\ UNCHANGED <<job, result, fetches, hist>>

Next ==
  \/ Save
  \/ \E f \in Fetcher : Start(f) \/ Step(f) \/ Arrives(f) \/ Cancel(f) \/ Kill(f)

(* Every system call returns; the line need not bring anything, and curl    *)
(* gives up on one that does not.                                           *)
Fairness == \A f \in Fetcher : WF_vars(Step(f))

Spec == Init /\ [][Next]_vars
FairSpec == Spec /\ Fairness

-----------------------------------------------------------------------------
(* What stands under the destination's name is the user's or a whole        *)
(* artifact, through refusals, cancels, errors and kills at any callback.   *)
(* What ImageService.hpp promises ("a failed or cancelled fetch never       *)
(* leaves a partial file at outputPath") is broken by the copy that stands  *)
(* in for a rename, and by nothing else: a part of a file stands there only *)
(* while a fetch copies, and after a copy that failed or was killed.        *)
OutIsWhole ==
  entry["out"] # None =>
    \/ \E x \in Artifact \cup {"user"} : data[entry["out"]] = Only(x)
    \/ torn \/ \E f \in Fetcher : At(f, "copy")

(* A fetch that returned leaves no .part file behind, whatever ended it: a  *)
(* killed one may, or one that was not let remove it, and then the next one *)
(* that opens it does not.                                                  *)
NoDroppings ==
  (\A f \in Fetcher : At(f, "idle")) /\ ~left => entry["part"] = None

(* Success is the artifact that was asked for, at the step that reports it. *)
SuccessStep ==
  \A f \in Fetcher :
    result[f] = "none" /\ result'[f] = "ok" =>
      entry'["out"] # None /\ data'[entry'["out"]] = Only(job[f].id)
DeliversWhatWasAsked == [][SuccessStep]_vars

(* Every fetch ends, on a dead line too.                                    *)
EveryFetchEnds == \A f \in Fetcher : ~At(f, "idle") ~> At(f, "idle")
=============================================================================
