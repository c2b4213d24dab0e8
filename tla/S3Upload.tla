------------------------------- MODULE S3Upload -------------------------------
(***************************************************************************)
(* S3Destination.put (destinations/s3.py): one PutObject for a small file, *)
(* a multipart upload for a large one, and then a check of the stored      *)
(* size; each call goes through call_with_retry (net/retry.py). The server *)
(* and the network are external: a request or its answer may be lost, and  *)
(* a request the client has given up may still be executed later. A file   *)
(* may be put again, as it is when a pending snapshot is shipped.          *)
(***************************************************************************)
EXTENDS Integers, FiniteSets

CONSTANTS
  Parts,      \* the parts of the file: size over multipart_chunk_size
  Attempts,   \* attempts of call_with_retry
  MaxPuts,    \* bound on puts
  MaxFaults,  \* bound on requests or answers that do not arrive in time
  MaxCuts,    \* bound on objects the server cuts short
  MaxLate     \* bound on requests that are late at the same time

ASSUME UploadAssumption ==
  /\ Parts \in Nat \ {0} /\ Attempts \in Nat \ {0}
  /\ MaxPuts \in Nat /\ MaxFaults \in Nat /\ MaxCuts \in Nat /\ MaxLate \in Nat

VARIABLES
  object,     \* what the bucket has under the key
  open,       \* the multipart uploads that are neither completed nor aborted
  got,        \* got[u]: the parts the server has of upload u
  client,     \* the locals of put and of the call_with_retry it is in
  late,       \* requests under way that the client has given up
  puts, made, faults, cuts,   \* puts, uploads, faults and cut objects so far
  excuse      \* history: what may explain a failed put, or an upload left open

server == <<object, open, got, made, cuts>>
vars   == <<server, client, late, puts, faults, excuse>>

NoUpload  == 0
UploadIds == 1..(MaxPuts + MaxFaults)

\* A request: "put" and "head", and of a multipart upload "create", "part",
\* "complete" and "abort".
Ask(call, u, n) == [call |-> call, upload |-> u, part |-> n]

Init ==
  /\ object = "absent"
  /\ open = {}
  /\ got = [u \in UploadIds |-> {}]
  /\ client = [status |-> "none", request |-> Ask("put", NoUpload, 0), attempt |-> 1]
  /\ late = {}
  /\ puts = 0 /\ made = 0 /\ faults = 0 /\ cuts = 0
  /\ excuse = [faults |-> 0, unheard |-> FALSE, cut |-> FALSE, unread |-> FALSE,
               orphans |-> 0]

-----------------------------------------------------------------------------
(* The server *)

\* An object of the sizes the server was asked for, or a shorter one; a request
\* that arrives late is executed in full or not at all.
StoresObject(mayCut) ==
  \/ object' = "whole" /\ UNCHANGED cuts
  \/ mayCut /\ cuts < MaxCuts /\ object' = "torn" /\ cuts' = cuts + 1

\* The request succeeds.
Accepts(r, mayCut) ==
  \/ /\ r.call = "put"
     /\ StoresObject(mayCut)
     /\ UNCHANGED <<open, got, made>>
  \/ /\ r.call = "create"
     /\ made' = made + 1
     /\ open' = open \cup {made + 1}
     /\ UNCHANGED <<object, got, cuts>>
  \/ /\ r.call = "part"
     /\ r.upload \in open
     /\ got' = [got EXCEPT ![r.upload] = @ \cup {r.part}]
     /\ UNCHANGED <<object, open, made, cuts>>
  \/ /\ r.call = "complete"
     /\ r.upload \in open
     /\ got[r.upload] = 1..Parts
     /\ StoresObject(mayCut)
     /\ open' = open \ {r.upload}
     /\ UNCHANGED <<got, made>>
  \/ /\ r.call = "abort"
     /\ r.upload \in open
     /\ open' = open \ {r.upload}
     /\ UNCHANGED <<object, got, made, cuts>>
  \/ /\ r.call = "head"
     /\ object # "absent"
     /\ UNCHANGED server

\* The request is answered with an error, such as NoSuchUpload.
Refuses(r) ==
  /\ \/ r.call = "head" /\ object = "absent"
     \/ r.call \in {"part", "complete", "abort"} /\ r.upload \notin open
     \/ r.call = "complete" /\ r.upload \in open /\ got[r.upload] # 1..Parts
  /\ UNCHANGED server

-----------------------------------------------------------------------------
(* The client *)

Calling(r) == [status |-> "putting", request |-> r, attempt |-> 1]

Over(status) == [client EXCEPT !.status = status, !.attempt = 1]

\* put, with the file below or above the threshold.
Begin ==
  /\ client.status # "putting"
  /\ puts < MaxPuts
  /\ puts' = puts + 1
  /\ \E call \in {"put", "create"} : client' = Calling(Ask(call, NoUpload, 0))
  /\ excuse' = [excuse EXCEPT !.faults = 0, !.unheard = FALSE, !.cut = FALSE, !.unread = FALSE]
  /\ UNCHANGED <<server, late, faults>>

\* Mutant: the size of what was stored is not compared.
HeadUnchecked == "stored"

\* _verify_size: a mismatch raises, and is not retried.
Head == IF object = "whole" THEN "stored" ELSE "failed"

\* What put does with the answer to its request.
Returns(r) ==
  \/ r.call \in {"put", "complete"} /\ client' = Calling(Ask("head", NoUpload, 0))
  \/ r.call = "create"  /\ client' = Calling(Ask("part", made', 1))
  \/ /\ r.call = "part"
     /\ client' = Calling(IF r.part < Parts THEN Ask("part", r.upload, r.part + 1)
                          ELSE Ask("complete", r.upload, 0))
  \/ r.call = "abort"   /\ client' = Over("failed")
  \/ r.call = "head"    /\ client' = Over(Head)

\* Mutant: only a failed part aborts the upload.
GivesUpPart(r) ==
  IF r.call = "part" THEN Calling(Ask("abort", r.upload, 0)) ELSE Over("failed")

\* The upload is aborted, once and whatever comes of it, before put raises.
GivesUp(r) ==
  IF r.call \in {"part", "complete"} THEN Calling(Ask("abort", r.upload, 0))
  ELSE Over("failed")

\* Mutant: the last attempt is not made.
RaisesEarly(r) ==
  IF r.call # "abort" /\ client.attempt < Attempts - 1
  THEN [client EXCEPT !.attempt = @ + 1] ELSE GivesUp(r)

\* call_with_retry; abort_multipart_upload is called without it.
Raises(r) ==
  IF r.call # "abort" /\ client.attempt < Attempts
  THEN [client EXCEPT !.attempt = @ + 1] ELSE GivesUp(r)

Answered ==
  LET r == client.request
  IN  /\ client.status = "putting"
      /\ \/ Accepts(r, TRUE) /\ Returns(r)
         \/ Refuses(r) /\ client' = Raises(r)
      /\ excuse' = [excuse EXCEPT !.cut = @ \/ cuts' # cuts]
      /\ UNCHANGED <<late, puts, faults>>

\* History: r was executed and nobody heard of it.
Unheard(r, done) ==
  [excuse EXCEPT !.unheard = @ \/ (done /\ r.call = "complete"),
                 !.orphans = @ + (IF done /\ r.call = "create" THEN 1 ELSE 0),
                 !.cut     = @ \/ cuts' # cuts]

\* History: one more fault, and an upload nobody aborts.
Missed(e, r, done) ==
  [e EXCEPT !.faults  = @ + 1,
            !.orphans = @ + (IF ~done /\ r.call = "abort" THEN 1 ELSE 0)]

RequestLost ==
  LET r == client.request
  IN  /\ client.status = "putting"
      /\ faults < MaxFaults
      /\ faults' = faults + 1
      /\ client' = Raises(r)
      /\ excuse' = Missed(excuse, r, FALSE)
      /\ UNCHANGED <<server, late, puts>>

AnswerLost ==
  LET r == client.request
  IN  /\ client.status = "putting"
      /\ faults < MaxFaults
      /\ faults' = faults + 1
      /\ Accepts(r, TRUE)
      /\ client' = Raises(r)
      /\ excuse' = Missed(Unheard(r, TRUE), r, TRUE)
      /\ UNCHANGED <<late, puts>>

RequestDelayed ==
  LET r == client.request
  IN  /\ client.status = "putting"
      /\ r.call # "head" /\ r \notin late
      /\ faults < MaxFaults /\ Cardinality(late) < MaxLate
      /\ faults' = faults + 1
      /\ late' = late \cup {r}
      /\ client' = Raises(r)
      /\ excuse' = Missed(excuse, r, FALSE)
      /\ UNCHANGED <<server, puts>>

LateArrives ==
  \E r \in late :
    /\ \/ Accepts(r, FALSE) /\ excuse' = Unheard(r, TRUE)
       \/ Refuses(r) /\ UNCHANGED excuse
    /\ late' = late \ {r}
    /\ UNCHANGED <<client, puts, faults>>

\* Reading the file, or its next chunk, raises.
ReadFails ==
  LET r == client.request
  IN  /\ client.status = "putting"
      /\ r.call \in {"put", "part", "complete"} /\ client.attempt = 1
      /\ ~excuse.unread
      /\ client' = GivesUp(r)
      /\ excuse' = [excuse EXCEPT !.unread = TRUE]
      /\ UNCHANGED <<server, late, puts, faults>>

Next ==
  \/ Begin \/ Answered \/ ReadFails
  \/ RequestLost \/ AnswerLost \/ RequestDelayed \/ LateArrives

\* The client's timeouts end each call.
Spec == Init /\ [][Next]_vars /\ WF_vars(Answered)
-----------------------------------------------------------------------------
P == INSTANCE Put WITH status <- client.status

(***************************************************************************)
(* The multipart protocol with its retries is a put as BackupRun assumes   *)
(* it: a put that returns has left the whole file under the key and        *)
(* nothing that arrives later changes it, and each put ends.               *)
(***************************************************************************)
ImplementsPut == P!Spec

(***************************************************************************)
(* No multipart upload is left open, its parts stored and paid for, unless *)
(* a lost or late call left it: for each one that remains a create was     *)
(* executed unheard, or an abort did not arrive in time.                   *)
(***************************************************************************)
UploadsAccountedFor ==
  client.status # "putting" => Cardinality(open) <= excuse.orphans

(***************************************************************************)
(* A put only fails for a reason retries cannot help: as many faults as    *)
(* there are attempts, an object cut short, an unreadable file - or a      *)
(* completion that was executed unheard, whose retry finds the upload gone *)
(* though the object is there.                                             *)
(***************************************************************************)
RetriesOutlastFaults ==
  client.status = "failed" =>
    \/ excuse.faults >= Attempts
    \/ excuse.cut \/ excuse.unread \/ excuse.unheard
=============================================================================
