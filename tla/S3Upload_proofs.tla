---------------------------- MODULE S3Upload_proofs ----------------------------
(***************************************************************************)
(* S3Upload implements Put, its puts fail for good reasons only, and no    *)
(* upload stays open unexplained, for every number of parts, attempts and  *)
(* faults.                                                                 *)
(***************************************************************************)
EXTENDS S3Upload, FiniteSetTheorems, TLAPS

\* The client is a record, and nothing is late before the first put.
Kinds ==
  /\ client = [status  |-> client.status, request |-> client.request,
               attempt |-> client.attempt]
  /\ client.status = "none" => late = {}

\* The server leaves the object alone, or stores it in full or, where it may cut
\* it short, in part.
LEMMA ServerStores ==
  ASSUME NEW r, NEW mayCut \in BOOLEAN, Accepts(r, mayCut)
  PROVE  \/ UNCHANGED object
         \/ r.call # "head" /\ object' = "whole"
         \/ r.call # "head" /\ mayCut /\ object' = "torn"
  BY DEF Accepts, StoresObject, server

\* A refused request changes nothing.
LEMMA RefusalsLeave ==
  ASSUME NEW r, Refuses(r)
  PROVE  UNCHANGED object
  BY DEF Refuses, server

\* The shape of the client after each of its steps.
LEMMA CallingShape ==
  ASSUME NEW q, client' = Calling(q)
  PROVE  client'.status = "putting" /\ Kinds'
  BY DEF Calling, Kinds

LEMMA OverShape ==
  ASSUME Kinds, NEW s, s # "none", client' = Over(s)
  PROVE  client'.status = s /\ Kinds'
  BY DEF Over, Kinds

\* A request that raises is asked again, gives way to the abort, or fails the put.
LEMMA RaisesStatus ==
  ASSUME Kinds, client.status = "putting", NEW r, client' = Raises(r)
  PROVE  client'.status \in {"putting", "failed"} /\ Kinds'
  <1>1. CASE client' = [client EXCEPT !.attempt = @ + 1]
    BY <1>1 DEF Kinds
  <1>2. CASE client' = Calling(Ask("abort", r.upload, 0))
    BY <1>2, CallingShape
  <1>3. CASE client' = Over("failed")
    BY <1>3, OverShape
  <1> QED
    BY <1>1, <1>2, <1>3 DEF Raises, GivesUp

\* Only the check of the size makes a put return, and only of a whole object.
LEMMA ReturnsStatus ==
  ASSUME Kinds, NEW r, Returns(r)
  PROVE  /\ Kinds'
         /\ \/ client'.status \in {"putting", "failed"}
            \/ r.call = "head" /\ object = "whole" /\ client'.status = "stored"
  <1>1. CASE \E q : client' = Calling(q)
    BY <1>1, CallingShape
  <1>2. CASE client' = Over("failed")
    BY <1>2, OverShape
  <1>3. CASE r.call = "head" /\ client' = Over(Head)
    BY <1>3, OverShape DEF Head
  <1> QED
    BY <1>1, <1>2, <1>3 DEF Returns
-----------------------------------------------------------------------------
LEMMA KindsInit == Init => Kinds
  BY DEF Init, Kinds, Ask

\* Each step keeps the shape, and is a step of a put or a stutter.
LEMMA PutStep ==
  ASSUME Kinds, [Next]_vars
  PROVE  Kinds' /\ [P!Next]_(P!vars)
  <1> USE DEF P!vars
  <1>1. CASE Begin
    <2>1. PICK call \in {"put", "create"} : client' = Calling(Ask(call, NoUpload, 0))
      BY <1>1 DEF Begin
    <2>2. client'.status = "putting" /\ Kinds'
      BY <2>1, CallingShape
    <2> QED
      BY <1>1, <2>2 DEF Begin, server, P!Next, P!Begin
  <1>2. CASE Answered
    <2>1. PICK r : r = client.request
      OBVIOUS
    <2>2. CASE Accepts(r, TRUE) /\ Returns(r)
      <3>1. \/ UNCHANGED object
            \/ r.call # "head" /\ object' \in {"whole", "torn"}
        BY <2>2, ServerStores
      <3> QED
        BY <1>2, <2>2, <3>1, ReturnsStatus
        DEF Answered, P!Next, P!Land, P!Return, P!Raise
    <2>3. CASE Refuses(r) /\ client' = Raises(r)
      BY <1>2, <2>3, RefusalsLeave, RaisesStatus DEF Answered, P!Next, P!Raise
    <2> QED
      BY <1>2, <2>1, <2>2, <2>3 DEF Answered
  <1>3. CASE RequestLost \/ RequestDelayed \/ ReadFails
    <2>1. PICK r : r = client.request
      OBVIOUS
    <2>2. /\ client.status = "putting" /\ UNCHANGED object
          /\ client' = Raises(r) \/ client' = GivesUp(r)
      BY <1>3, <2>1 DEF RequestLost, RequestDelayed, ReadFails, server
    <2>3. client'.status \in {"putting", "failed"} /\ Kinds'
      BY <2>2, RaisesStatus, CallingShape, OverShape DEF GivesUp
    <2> QED
      BY <2>2, <2>3 DEF P!Next, P!Raise
  <1>4. CASE AnswerLost
    <2>1. PICK r : r = client.request
      OBVIOUS
    <2>2. client.status = "putting" /\ Accepts(r, TRUE) /\ client' = Raises(r)
      BY <1>4, <2>1 DEF AnswerLost
    <2>3. UNCHANGED object \/ object' \in {"whole", "torn"}
      BY <2>2, ServerStores
    <2>4. client'.status \in {"putting", "failed"} /\ Kinds'
      BY <2>2, RaisesStatus
    <2> QED
      BY <2>2, <2>3, <2>4 DEF P!Next, P!Land, P!Raise
  <1>5. CASE LateArrives
    <2>1. PICK r \in late : Accepts(r, FALSE) \/ Refuses(r)
      BY <1>5 DEF LateArrives
    <2>2. UNCHANGED object \/ object' = "whole"
      BY <2>1, ServerStores, RefusalsLeave
    <2>3. UNCHANGED client /\ client.status # "none"
      BY <1>5, <2>1 DEF LateArrives, Kinds
    <2>4. Kinds'
      BY <2>3 DEF Kinds
    <2> QED
      BY <2>2, <2>3, <2>4 DEF P!Next, P!Land
  <1>6. CASE UNCHANGED vars
    BY <1>6 DEF vars, server, Kinds
  <1> QED
    BY <1>1, <1>2, <1>3, <1>4, <1>5, <1>6 DEF Next

(***************************************************************************)
(* Every behaviour of the upload is one of a put, but for the fairness,    *)
(* which is left to the model checker: a put that returned has left the    *)
(* whole file under the key, and no late request changes it.               *)
(***************************************************************************)
THEOREM UploadIsPut == Spec => P!Init /\ [][P!Next]_(P!vars)
  <1>1. Init => P!Init
    BY DEF Init, P!Init
  <1>2. Kinds /\ [Next]_vars => Kinds' /\ [P!Next]_(P!vars)
    BY PutStep
  <1> QED
    BY KindsInit, <1>1, <1>2, PTL DEF Spec
-----------------------------------------------------------------------------
(* What the client, the server and the history know of each other *)

Calls    == {"put", "create", "part", "complete", "abort", "head"}
OfUpload == {"part", "complete", "abort"}
Create   == Ask("create", NoUpload, 0)
Request  == [call : Calls, upload : Nat, part : Nat]
Client   == [status : {"none", "putting", "stored", "failed"}, request : Request,
             attempt : Nat]
Excuse   == [faults : Nat, unheard : BOOLEAN, cut : BOOLEAN, unread : BOOLEAN,
             orphans : Nat]

Typed ==
  /\ object \in {"absent", "torn", "whole"}
  /\ made \in Nat /\ puts \in 0..MaxPuts /\ faults \in 0..MaxFaults /\ cuts \in Nat
  /\ open \subseteq 1..made
  /\ got \in [UploadIds -> SUBSET (1..Parts)]
  /\ client \in Client
  /\ late \subseteq Request
  /\ excuse \in Excuse

Asks(calls) == client.status = "putting" /\ client.request.call \in calls

\* A request that names an upload names one that was made, and one that names a
\* part a part of the file.
WellFormed(q) ==
  /\ q.call \in OfUpload => q.upload \in 1..made
  /\ q.call = "part" => q.part \in 1..Parts
  /\ q.call = "create" => q = Create

\* Each upload was paid for by a put or a fault, so that the server has room for
\* the parts of all of them.
Numbered ==
  /\ \A q \in late : WellFormed(q)
  /\ client.status = "putting" => WellFormed(client.request)
  /\ made + (IF Create \in late THEN 1 ELSE 0) + (IF Asks({"create"}) THEN 1 ELSE 0)
       <= puts + faults

\* The upload that is being filled is open, unless it was completed unheard, and
\* has the parts the client was told of.
Alive ==
  Asks({"part", "complete"}) =>
    LET u == client.request.upload IN
    /\ u \in open \/ excuse.unheard
    /\ \A q \in late : q.call = "abort" => q.upload # u
    /\ client.request.call = "part" => \A n \in 1..Parts : n < client.request.part => n \in got[u]
    /\ client.request.call = "complete" => got[u] = 1..Parts

Excused ==
  excuse.faults >= Attempts \/ excuse.cut \/ excuse.unread \/ excuse.unheard

\* Each attempt but the current one cost a fault.
Retried ==
  /\ client.status = "putting" =>
       client.attempt \in 1..Attempts /\ (Excused \/ excuse.faults >= client.attempt - 1)
  /\ Asks({"abort"}) => Excused
  /\ Asks({"head"}) => object # "absent" /\ (object = "torn" => excuse.cut)
  /\ RetriesOutlastFaults

\* The upload the client still knows of.
Current == IF Asks(OfUpload) THEN {client.request.upload} ELSE {}

Accounted == Cardinality(open \ Current) <= excuse.orphans

Inv == Typed /\ Numbered /\ Alive /\ Retried /\ Accounted

-----------------------------------------------------------------------------
(* What a request does to the server, and its outcome to the client *)

LEMMA Stores ==
  ASSUME Typed, NEW mayCut \in BOOLEAN, StoresObject(mayCut)
  PROVE  /\ object' \in {"torn", "whole"} /\ cuts' \in Nat
         /\ object' = "whole" \/ (object' = "torn" /\ mayCut /\ cuts' # cuts)
  <1>1. cuts \in Nat
    BY DEF Typed
  <1> QED
    BY <1>1 DEF StoresObject

LEMMA Accepted ==
  ASSUME Typed, Numbered, NEW r, WellFormed(r), NEW mayCut \in BOOLEAN, Accepts(r, mayCut)
  PROVE  /\ object' \in {"absent", "torn", "whole"} /\ cuts' \in Nat /\ made' \in Nat
         /\ open' \subseteq 1..made' /\ got' \in [UploadIds -> SUBSET (1..Parts)]
         /\ \A u \in 1..made : got[u] \subseteq got'[u]
         /\ \/ r.call = "put" /\ UNCHANGED <<open, made, got>>
            \/ r.call = "create" /\ made' = made + 1 /\ open' = open \cup {made + 1} /\ got' = got
            \/ /\ r.call = "part" /\ r.upload \in open /\ UNCHANGED <<open, made>>
               /\ r.part \in got'[r.upload]
            \/ /\ r.call \in {"complete", "abort"} /\ r.upload \in open
               /\ open' = open \ {r.upload} /\ UNCHANGED <<made, got>>
            \/ r.call = "head" /\ UNCHANGED <<open, made, got>>
         /\ IF r.call \in {"put", "complete"}
            THEN object' = "whole" \/ (object' = "torn" /\ mayCut /\ cuts' # cuts)
            ELSE UNCHANGED <<object, cuts>>
  <1>1. made <= MaxPuts + MaxFaults /\ made \in Nat
    BY UploadAssumption DEF Numbered, Typed
  <1>2. 1..made \subseteq UploadIds
    BY <1>1, UploadAssumption DEF UploadIds
  <1>3. CASE r.call = "put"
    <2>1. StoresObject(mayCut) /\ UNCHANGED <<open, got, made>>
      BY <1>3 DEF Accepts
    <2>2. open \subseteq 1..made /\ got \in [UploadIds -> SUBSET (1..Parts)]
      BY DEF Typed
    <2> QED
      BY <1>1, <1>3, <2>1, <2>2, Stores
  <1>4. CASE r.call = "create"
    <2>1. /\ made' = made + 1 /\ open' = open \cup {made + 1}
          /\ UNCHANGED <<object, got, cuts>>
      BY <1>4 DEF Accepts
    <2> QED
      BY <1>1, <1>4, <2>1 DEF Typed
  <1>5. CASE r.call = "part"
    <2>1. /\ r.upload \in open /\ got' = [got EXCEPT ![r.upload] = @ \cup {r.part}]
          /\ UNCHANGED <<object, open, made, cuts>>
      BY <1>5 DEF Accepts
    <2>2. r.upload \in UploadIds /\ r.part \in 1..Parts
      BY <1>2, <1>5 DEF WellFormed, OfUpload
    <2> QED
      BY <1>2, <1>5, <2>1, <2>2 DEF Typed
  <1>6. CASE r.call = "complete"
    <2>1. /\ r.upload \in open /\ StoresObject(mayCut) /\ open' = open \ {r.upload}
          /\ UNCHANGED <<got, made>>
      BY <1>6 DEF Accepts
    <2>2. open \subseteq 1..made /\ got \in [UploadIds -> SUBSET (1..Parts)]
      BY DEF Typed
    <2> QED
      BY <1>1, <1>6, <2>1, <2>2, Stores
  <1>7. CASE r.call = "abort"
    <2>1. /\ r.upload \in open /\ open' = open \ {r.upload}
          /\ UNCHANGED <<object, got, made, cuts>>
      BY <1>7 DEF Accepts
    <2> QED
      BY <1>7, <2>1 DEF Typed
  <1>8. CASE r.call = "head"
    BY <1>8 DEF Accepts, Typed, server
  <1> QED
    BY <1>3, <1>4, <1>5, <1>6, <1>7, <1>8 DEF Accepts

\* Giving up asks for the abort of the upload, or fails the put.
GaveUp(r) ==
  \/ /\ r.call \in {"part", "complete"}
     /\ client'.status = "putting" /\ client'.request = Ask("abort", r.upload, 0)
     /\ client'.attempt = 1
  \/ /\ r.call \notin {"part", "complete"}
     /\ client'.status = "failed" /\ client'.request = r

LEMMA AskType ==
  ASSUME NEW call \in Calls, NEW u \in Nat, NEW n \in Nat
  PROVE  /\ Ask(call, u, n) \in Request
         /\ Calling(Ask(call, u, n)) \in Client
         /\ Calling(Ask(call, u, n)).status = "putting"
         /\ Calling(Ask(call, u, n)).request = Ask(call, u, n)
         /\ Calling(Ask(call, u, n)).attempt = 1
         /\ Ask(call, u, n).call = call /\ Ask(call, u, n).upload = u /\ Ask(call, u, n).part = n
  BY DEF Ask, Calling, Request, Client

LEMMA OverType ==
  ASSUME Typed, NEW status \in {"stored", "failed"}
  PROVE  /\ Over(status) \in Client /\ Over(status).status = status
         /\ Over(status).request = client.request
  BY DEF Over, Typed, Client

LEMMA GivesUpTo ==
  ASSUME Typed, NEW r, r = client.request, client' = GivesUp(r)
  PROVE  client' \in Client /\ GaveUp(r)
  <1>1. r \in Request
    BY DEF Typed, Client
  <1>2. r.upload \in Nat /\ 0 \in Nat /\ "abort" \in Calls
    BY <1>1 DEF Request, Calls
  <1> QED
    BY <1>2, AskType, OverType DEF GivesUp, GaveUp

LEMMA RaisesTo ==
  ASSUME Typed, NEW r, r = client.request, client.status = "putting", client' = Raises(r)
  PROVE  /\ client' \in Client
         /\ \/ /\ client'.status = "putting" /\ client'.request = r
               /\ client'.attempt = client.attempt + 1
               /\ client.attempt < Attempts /\ r.call # "abort"
            \/ /\ r.call = "abort" \/ client.attempt >= Attempts
               /\ GaveUp(r)
  <1>1. CASE r.call # "abort" /\ client.attempt < Attempts
    <2>1. client' = [client EXCEPT !.attempt = @ + 1]
      BY <1>1 DEF Raises
    <2> QED
      BY <1>1, <2>1 DEF Typed, Client
  <1>2. CASE ~(r.call # "abort" /\ client.attempt < Attempts)
    <2>1. client' = GivesUp(r)
      BY <1>2 DEF Raises
    <2>2. client.attempt \in Nat /\ Attempts \in Nat
      BY UploadAssumption DEF Typed, Client
    <2> QED
      BY <1>2, <2>1, <2>2, GivesUpTo
  <1> QED
    BY <1>1, <1>2

\* What is asked for after a request failed was asked for before, but for the
\* abort of the same upload.
Narrows ==
  /\ \A calls : Asks(calls)' /\ client'.request.call # "abort" =>
       Asks(calls) /\ client'.request = client.request
  /\ Asks({"abort"})' => Asks({"part", "complete"}) /\ client'.request.upload = client.request.upload
  /\ client'.status = "putting" => client'.request = client.request \/ Asks({"abort"})'
  /\ IF client.request.call = "abort" THEN ~Asks(OfUpload)' ELSE Current' = Current

LEMMA FailureNarrows ==
  ASSUME Typed, client.status = "putting",
         \/ client' = Raises(client.request)
         \/ client' = GivesUp(client.request) /\ client.request.call # "abort"
  PROVE  Narrows
  <1>1. PICK r : r = client.request
    OBVIOUS
  <1>2. r \in Request /\ r.upload \in Nat
    BY <1>1 DEF Typed, Client, Request
  <1>3. \/ client'.status = "putting" /\ client'.request = r /\ r.call # "abort"
        \/ GaveUp(r)
    BY <1>1, RaisesTo, GivesUpTo
  <1>4. /\ Ask("abort", r.upload, 0).call = "abort"
        /\ Ask("abort", r.upload, 0).upload = r.upload
    BY DEF Ask
  <1> QED
    BY <1>1, <1>3, <1>4 DEF Narrows, Asks, OfUpload, Current, GaveUp

-----------------------------------------------------------------------------
(* The steps, sorted by what they do *)

\* A request of the client fails: it was lost, or delayed, or its answer was.
Faulty == RequestLost \/ AnswerLost \/ RequestDelayed

\* The server refuses the request of the client, or the file cannot be read.
Refused == Answered /\ Refuses(client.request) /\ client' = Raises(client.request)

Heard == Answered /\ Accepts(client.request, TRUE) /\ Returns(client.request)

LEMMA Steps ==
  ASSUME [Next]_vars
  PROVE  UNCHANGED vars \/ Begin \/ Heard \/ Refused \/ ReadFails \/ Faulty \/ LateArrives
  <1>1. Answered => Heard \/ Refused
    BY DEF Answered, Heard, Refused
  <1> QED
    BY <1>1 DEF Next, Faulty

\* The history after each step.
LEMMA LostHistory ==
  ASSUME Typed, RequestLost \/ RequestDelayed
  PROVE  /\ excuse' \in Excuse /\ excuse'.faults = excuse.faults + 1
         /\ excuse'.unheard = excuse.unheard /\ excuse'.cut = excuse.cut
         /\ excuse'.unread = excuse.unread
         /\ excuse'.orphans = excuse.orphans + (IF client.request.call = "abort" THEN 1 ELSE 0)
  <1>1. excuse \in Excuse /\ excuse.faults \in Nat /\ excuse.orphans \in Nat
    BY DEF Typed, Excuse
  <1>2. PICK n \in Nat : n = IF client.request.call = "abort" THEN 1 ELSE 0
    OBVIOUS
  <1>3. excuse' = Missed(excuse, client.request, FALSE)
    BY DEF RequestLost, RequestDelayed
  <1>4. PICK o \in Nat : o = excuse.orphans + n
    BY <1>1
  <1>5. PICK a \in Nat : a = excuse.faults + 1
    BY <1>1
  <1>6. excuse' = [excuse EXCEPT !.faults = a, !.orphans = o]
    BY <1>2, <1>3, <1>4, <1>5 DEF Missed
  <1> QED
    BY <1>1, <1>2, <1>4, <1>5, <1>6 DEF Excuse

LEMMA UnheardHistory ==
  ASSUME Typed, NEW r
  PROVE  LET f == Unheard(r, TRUE) IN
         /\ f \in Excuse /\ f.faults = excuse.faults /\ f.unread = excuse.unread
         /\ f.unheard = (excuse.unheard \/ r.call = "complete")
         /\ f.cut = (excuse.cut \/ cuts' # cuts)
         /\ f.orphans = excuse.orphans + (IF r.call = "create" THEN 1 ELSE 0)
  <1>1. /\ excuse \in Excuse /\ excuse.orphans \in Nat
        /\ excuse.unheard \in BOOLEAN /\ excuse.cut \in BOOLEAN
    BY DEF Typed, Excuse
  <1>2. PICK o \in Nat : o = excuse.orphans + (IF r.call = "create" THEN 1 ELSE 0)
    BY <1>1
  <1>3. PICK u \in BOOLEAN : u = (excuse.unheard \/ r.call = "complete")
    OBVIOUS
  <1>4. PICK c \in BOOLEAN : c = (excuse.cut \/ cuts' # cuts)
    OBVIOUS
  <1>5. Unheard(r, TRUE) = [excuse EXCEPT !.unheard = u, !.orphans = o, !.cut = c]
    BY <1>2, <1>3, <1>4 DEF Unheard
  <1>6. PICK f : f = [excuse EXCEPT !.unheard = u, !.orphans = o, !.cut = c]
    OBVIOUS
  <1>7. /\ f \in Excuse /\ f.faults = excuse.faults /\ f.unread = excuse.unread
        /\ f.unheard = u /\ f.cut = c /\ f.orphans = o
    BY <1>1, <1>6 DEF Excuse
  <1> QED
    BY <1>2, <1>3, <1>4, <1>5, <1>6, <1>7

LEMMA AnswerLostHistory ==
  ASSUME Typed, AnswerLost
  PROVE  /\ excuse' \in Excuse /\ excuse'.faults = excuse.faults + 1
         /\ excuse'.unheard = (excuse.unheard \/ client.request.call = "complete")
         /\ excuse'.cut = (excuse.cut \/ cuts' # cuts)
         /\ excuse'.unread = excuse.unread
         /\ excuse'.orphans = excuse.orphans + (IF client.request.call = "create" THEN 1 ELSE 0)
  <1>1. PICK r : r = client.request
    OBVIOUS
  <1>2. PICK f : f = Unheard(r, TRUE)
    OBVIOUS
  <1>3. /\ f \in Excuse /\ f.faults = excuse.faults /\ f.unread = excuse.unread
        /\ f.unheard = (excuse.unheard \/ r.call = "complete")
        /\ f.cut = (excuse.cut \/ cuts' # cuts)
        /\ f.orphans = excuse.orphans + (IF r.call = "create" THEN 1 ELSE 0)
    BY <1>2, UnheardHistory
  <1>4. f.faults \in Nat /\ f.orphans \in Nat
    BY <1>3 DEF Excuse
  <1>5. PICK a \in Nat : a = f.faults + 1
    BY <1>4
  <1>6. f.orphans + 0 = f.orphans
    BY <1>4
  <1>7. excuse' = [f EXCEPT !.faults = a, !.orphans = f.orphans]
    BY <1>1, <1>2, <1>5, <1>6 DEF AnswerLost, Missed
  <1>8. /\ excuse' \in Excuse /\ excuse'.faults = a /\ excuse'.unheard = f.unheard
        /\ excuse'.cut = f.cut /\ excuse'.unread = f.unread /\ excuse'.orphans = f.orphans
    BY <1>3, <1>4, <1>7 DEF Excuse
  <1> QED
    BY <1>1, <1>3, <1>5, <1>8

LEMMA AnsweredHistory ==
  ASSUME Typed, Answered
  PROVE  /\ excuse' \in Excuse
         /\ excuse'.faults = excuse.faults /\ excuse'.unheard = excuse.unheard
         /\ excuse'.unread = excuse.unread /\ excuse'.orphans = excuse.orphans
         /\ excuse'.cut = (excuse.cut \/ cuts' # cuts)
  <1>1. excuse \in Excuse
    BY DEF Typed
  <1>2. PICK c \in BOOLEAN : c <=> excuse.cut \/ cuts' # cuts
    OBVIOUS
  <1>3. excuse.cut \in BOOLEAN /\ (excuse.cut \/ cuts' # cuts) = c
    BY <1>1, <1>2 DEF Excuse
  <1>4. excuse' = [excuse EXCEPT !.cut = c]
    BY <1>3 DEF Answered
  <1> QED
    BY <1>1, <1>2, <1>3, <1>4 DEF Excuse

LEMMA OtherHistories ==
  ASSUME Typed
  PROVE  /\ ReadFails => excuse' \in Excuse /\ excuse'.unread /\ excuse'.orphans = excuse.orphans
                         /\ excuse'.unheard = excuse.unheard /\ excuse'.cut = excuse.cut
         /\ Begin => excuse' \in Excuse /\ excuse'.orphans = excuse.orphans
  <1>1. excuse \in Excuse
    BY DEF Typed
  <1>2. ASSUME ReadFails
        PROVE  excuse' \in Excuse /\ excuse'.unread /\ excuse'.orphans = excuse.orphans
               /\ excuse'.unheard = excuse.unheard /\ excuse'.cut = excuse.cut
    <2>1. excuse' = [excuse EXCEPT !.unread = TRUE]
      BY <1>2 DEF ReadFails
    <2> QED
      BY <1>1, <2>1 DEF Excuse
  <1>3. ASSUME Begin
        PROVE  excuse' \in Excuse /\ excuse'.orphans = excuse.orphans
    <2>1. excuse' = [excuse EXCEPT !.faults = 0, !.unheard = FALSE, !.cut = FALSE, !.unread = FALSE]
      BY <1>3 DEF Begin
    <2> QED
      BY <1>1, <2>1 DEF Excuse
  <1> QED
    BY <1>2, <1>3

-----------------------------------------------------------------------------
(* The invariant is inductive: one lemma per conjunct, one step per action *)

LEMMA Ready == ASSUME Typed, Numbered, client.status = "putting"
               PROVE  WellFormed(client.request) /\ client.request \in Request
  BY DEF Numbered, Typed, Client

\* What an answer makes the client ask next.
LEMMA ReturnsTo ==
  ASSUME Typed, Numbered, Heard
  PROVE  LET r == client.request IN
         /\ client' \in Client
         /\ client'.status = "putting" =>
              client'.attempt = 1 /\ r.call \in {"put", "create", "part", "complete"}
         /\ r.call \in {"put", "complete"} => client'.status = "putting" /\ client'.request = Ask("head", 0, 0)
         /\ r.call = "create" => client'.status = "putting" /\ client'.request = Ask("part", made', 1)
         /\ r.call = "part" =>
              /\ client'.status = "putting"
              /\ client'.request = IF r.part < Parts THEN Ask("part", r.upload, r.part + 1)
                                   ELSE Ask("complete", r.upload, 0)
         /\ r.call = "abort" => client'.status = "failed"
         /\ r.call = "head" => client'.status = Head
         /\ client'.status \in {"putting", "stored", "failed"}
  <1>1. PICK r : r = client.request
    OBVIOUS
  <1>2. /\ r \in Request /\ r.upload \in Nat /\ r.part \in Nat /\ r.call \in Calls
        /\ Returns(r) /\ Accepts(r, TRUE) /\ made \in Nat /\ client.status = "putting"
    BY <1>1 DEF Heard, Answered, Typed, Client, Request
  <1>3. made' \in Nat
    BY <1>1, <1>2, Ready, Accepted
  <1>4. CASE r.call \in {"put", "complete"}
    <2>1. client' = Calling(Ask("head", 0, 0))
      BY <1>2, <1>4 DEF Returns, NoUpload
    <2> QED
      BY <1>1, <1>4, <2>1, AskType DEF Calls
  <1>5. CASE r.call = "create"
    <2>1. client' = Calling(Ask("part", made', 1))
      BY <1>2, <1>5 DEF Returns
    <2>2. "part" \in Calls /\ 1 \in Nat
      BY DEF Calls
    <2> QED
      BY <1>1, <1>3, <1>5, <2>1, <2>2, AskType
  <1>6. CASE r.call = "part"
    <2>1. client' = Calling(IF r.part < Parts THEN Ask("part", r.upload, r.part + 1)
                            ELSE Ask("complete", r.upload, 0))
      BY <1>2, <1>6 DEF Returns
    <2>2. "part" \in Calls /\ "complete" \in Calls /\ r.part + 1 \in Nat /\ 0 \in Nat
      BY <1>2 DEF Calls
    <2>3. CASE r.part < Parts
      <3>1. client' = Calling(Ask("part", r.upload, r.part + 1))
        BY <2>1, <2>3
      <3> QED
        BY <1>1, <1>2, <1>6, <2>2, <2>3, <3>1, AskType
    <2>4. CASE ~(r.part < Parts)
      <3>1. client' = Calling(Ask("complete", r.upload, 0))
        BY <2>1, <2>4
      <3> QED
        BY <1>1, <1>2, <1>6, <2>2, <2>4, <3>1, AskType
    <2> QED
      BY <2>3, <2>4
  <1>7. CASE r.call = "abort"
    BY <1>1, <1>2, <1>7, OverType DEF Returns
  <1>8. CASE r.call = "head"
    <2>1. client' = Over(Head) /\ Head \in {"stored", "failed"}
      BY <1>2, <1>8 DEF Returns, Head
    <2> QED
      BY <1>1, <1>8, <2>1, OverType
  <1> QED
    BY <1>2, <1>4, <1>5, <1>6, <1>7, <1>8 DEF Calls

\* A client's request that fails leaves the server alone, or was executed.
LEMMA FaultyShape ==
  ASSUME Typed, Numbered, Faulty
  PROVE  /\ client.status = "putting" /\ client' = Raises(client.request)
         /\ faults' = faults + 1 /\ faults < MaxFaults /\ UNCHANGED puts
         /\ \/ RequestLost /\ UNCHANGED server /\ late' = late
            \/ AnswerLost /\ Accepts(client.request, TRUE) /\ late' = late
            \/ RequestDelayed /\ UNCHANGED server /\ late' = late \cup {client.request}
  BY DEF Faulty, RequestLost, AnswerLost, RequestDelayed

\* The late request that arrives, and its outcome.
LEMMA LateShape ==
  ASSUME Typed, Numbered, LateArrives
  PROVE  \E r \in late :
           /\ WellFormed(r) /\ r \in Request
           /\ \/ Accepts(r, FALSE) /\ excuse' = Unheard(r, TRUE)
              \/ UNCHANGED server /\ UNCHANGED excuse
           /\ late' = late \ {r}
           /\ UNCHANGED <<client, puts, faults>>
  BY DEF LateArrives, Numbered, Typed, Refuses

LEMMA TypedInit == Init => Typed
  <1> SUFFICES ASSUME Init PROVE Typed
    OBVIOUS
  <1>1. client \in Client
    BY DEF Init, Client, Request, Ask, Calls, NoUpload
  <1>2. excuse \in Excuse
    BY DEF Init, Excuse
  <1> QED
    BY <1>1, <1>2, UploadAssumption DEF Init, Typed

LEMMA TypedNext == ASSUME Typed, Numbered, [Next]_vars PROVE Typed'
  <1>1. CASE UNCHANGED vars
    BY <1>1 DEF Typed, vars, server
  <1>2. CASE Begin
    <2>1. PICK call \in {"put", "create"} : client' = Calling(Ask(call, NoUpload, 0))
      BY <1>2 DEF Begin
    <2>2. client' \in Client
      BY <2>1, AskType DEF Calls, NoUpload
    <2>3. excuse' \in Excuse
      BY <1>2, OtherHistories
    <2> QED
      BY <1>2, <2>2, <2>3, UploadAssumption DEF Begin, Typed, server
  <1>3. CASE Heard
    <2>1. /\ Answered /\ Accepts(client.request, TRUE) /\ client.status = "putting"
          /\ UNCHANGED <<late, puts, faults>>
      BY <1>3 DEF Heard, Answered
    <2>2. client' \in Client /\ excuse' \in Excuse
      BY <1>3, <2>1, ReturnsTo, AnsweredHistory
    <2>3. /\ object' \in {"absent", "torn", "whole"} /\ cuts' \in Nat
          /\ made' \in Nat
          /\ open' \subseteq 1..made' /\ got' \in [UploadIds -> SUBSET (1..Parts)]
      BY <2>1, Ready, Accepted
    <2> QED
      BY <2>1, <2>2, <2>3 DEF Typed
  <1>4. CASE Refused
    <2>1. /\ Answered /\ client.status = "putting" /\ UNCHANGED server
          /\ client' = Raises(client.request) /\ UNCHANGED <<late, puts, faults>>
      BY <1>4 DEF Refused, Answered, Refuses
    <2>2. client' \in Client /\ excuse' \in Excuse
      BY <2>1, RaisesTo, AnsweredHistory
    <2> QED
      BY <2>1, <2>2 DEF Typed, server
  <1>5. CASE ReadFails
    <2>1. client' \in Client
      BY <1>5, GivesUpTo DEF ReadFails
    <2> QED
      BY <1>5, <2>1, OtherHistories DEF Typed, server, ReadFails
  <1>6. CASE Faulty
    <2>1. /\ client.status = "putting" /\ client' = Raises(client.request)
          /\ faults' = faults + 1 /\ faults < MaxFaults /\ UNCHANGED puts
      BY <1>6, FaultyShape
    <2>2. client' \in Client /\ client.request \in Request
      BY <2>1, RaisesTo, Ready
    <2>3. excuse' \in Excuse
      BY <1>6, LostHistory, AnswerLostHistory DEF Faulty
    <2>4. late' \subseteq Request
      BY <1>6, <2>2, FaultyShape DEF Typed
    <2>5. CASE UNCHANGED server
      BY <2>1, <2>2, <2>3, <2>4, <2>5, UploadAssumption DEF Typed, server
    <2>6. CASE Accepts(client.request, TRUE)
      <3>1. /\ object' \in {"absent", "torn", "whole"} /\ cuts' \in Nat
            /\ made' \in Nat
            /\ open' \subseteq 1..made' /\ got' \in [UploadIds -> SUBSET (1..Parts)]
        BY <2>1, <2>6, Ready, Accepted
      <3> QED
        BY <2>1, <2>2, <2>3, <2>4, <3>1, UploadAssumption DEF Typed
    <2> QED
      BY <1>6, <2>5, <2>6, FaultyShape
  <1>7. CASE LateArrives
    <2>1. PICK r \in late :
            /\ WellFormed(r) /\ r \in Request
            /\ \/ Accepts(r, FALSE) /\ excuse' = Unheard(r, TRUE)
               \/ UNCHANGED server /\ UNCHANGED excuse
            /\ late' = late \ {r}
            /\ UNCHANGED <<client, puts, faults>>
      BY <1>7, LateShape
    <2>2. CASE UNCHANGED server /\ UNCHANGED excuse
      BY <2>1, <2>2 DEF Typed, server
    <2>3. CASE Accepts(r, FALSE) /\ excuse' = Unheard(r, TRUE)
      <3>1. /\ object' \in {"absent", "torn", "whole"} /\ cuts' \in Nat
            /\ made' \in Nat
            /\ open' \subseteq 1..made' /\ got' \in [UploadIds -> SUBSET (1..Parts)]
        BY <2>1, <2>3, Accepted
      <3>2. excuse' \in Excuse
        BY <2>3, UnheardHistory
      <3> QED
        BY <2>1, <3>1, <3>2 DEF Typed
    <2> QED
      BY <2>1, <2>2, <2>3
  <1> QED
    BY <1>1, <1>2, <1>3, <1>4, <1>5, <1>6, <1>7, Steps

\* The requests of Numbered, one by one; made does not shrink.
LEMMA StaysWellFormed ==
  ASSUME Typed, NEW q, WellFormed(q), made' \in Nat, made <= made'
  PROVE  WellFormed(q)'
  BY DEF Typed, WellFormed

LEMMA MadeGrows ==
  ASSUME Typed, Numbered, NEW r, WellFormed(r), NEW mayCut \in BOOLEAN, Accepts(r, mayCut)
  PROVE  made' \in Nat /\ made <= made' /\ (r.call # "create" => made' = made)
         /\ made' <= made + 1
  BY Accepted DEF Typed

LEMMA ReturnsWellFormed ==
  ASSUME Typed, Numbered, Heard
  PROVE  client'.status = "putting" =>
           WellFormed(client.request)' /\ client'.request.call # "create"
  <1>1. PICK r : r = client.request
    OBVIOUS
  <1>2. /\ client.status = "putting" /\ Accepts(r, TRUE) /\ WellFormed(r) /\ r \in Request
    BY <1>1, Ready DEF Heard, Answered
  <1>3. made' \in Nat /\ made <= made' /\ made \in Nat
    BY <1>2, MadeGrows DEF Typed
  <1>4. SUFFICES ASSUME NEW q, q = client'.request, client'.status = "putting"
                 PROVE  WellFormed(q)' /\ q.call # "create"
    BY DEF WellFormed
  <1>5. r.call \in {"put", "create", "part", "complete"}
    BY <1>1, <1>4, ReturnsTo
  <1>6. CASE r.call \in {"put", "complete"}
    <2>1. q = Ask("head", 0, 0)
      BY <1>1, <1>4, <1>6, ReturnsTo
    <2> QED
      BY <2>1 DEF WellFormed, Ask, OfUpload
  <1>7. CASE r.call = "create"
    <2>1. q = Ask("part", made', 1)
      BY <1>1, <1>4, <1>7, ReturnsTo
    <2>2. made' = made + 1
      BY <1>2, <1>7, Accepted
    <2> QED
      BY <1>3, <2>1, <2>2, UploadAssumption DEF WellFormed, Ask, OfUpload
  <1>8. CASE r.call = "part"
    <2>1. q = IF r.part < Parts THEN Ask("part", r.upload, r.part + 1)
              ELSE Ask("complete", r.upload, 0)
      BY <1>1, <1>4, <1>8, ReturnsTo
    <2>2. r.upload \in 1..made /\ r.part \in 1..Parts
      BY <1>2, <1>8 DEF WellFormed, OfUpload
    <2> QED
      BY <1>3, <2>1, <2>2, UploadAssumption DEF WellFormed, Ask, OfUpload
  <1> QED
    BY <1>5, <1>6, <1>7, <1>8

\* After a failure the client asks the same, or for an abort of the same upload.
LEMMA NarrowsWellFormed ==
  ASSUME Typed, Numbered, client.status = "putting", made' \in Nat, made <= made',
         client' \in Client,
         \/ client' = Raises(client.request)
         \/ client' = GivesUp(client.request) /\ client.request.call # "abort"
  PROVE  /\ client'.status = "putting" => WellFormed(client.request)'
         /\ Asks({"create"})' => Asks({"create"})
  <1>1. Narrows
    BY FailureNarrows
  <1>2. WellFormed(client.request)
    BY Ready
  <1>3. ASSUME client'.status = "putting" PROVE WellFormed(client.request)'
    <2>1. CASE client'.request = client.request
      <3>1. PICK q : q = client.request
        OBVIOUS
      <3>2. WellFormed(q)'
        BY <1>2, <3>1, StaysWellFormed
      <3> QED
        BY <2>1, <3>1, <3>2 DEF WellFormed
    <2>2. CASE Asks({"abort"})'
      BY <1>1, <1>2, <2>2 DEF Narrows, Asks, WellFormed, OfUpload, Typed
    <2> QED
      BY <1>1, <1>3, <2>1, <2>2 DEF Narrows
  <1>4. Asks({"create"})' => Asks({"create"})
    BY <1>1 DEF Narrows, Asks
  <1> QED
    BY <1>3, <1>4

LEMMA Sums == ASSUME NEW m \in Nat, NEW n \in Nat PROVE m + n \in Nat
  OBVIOUS

LEMMA Cheaper ==
  ASSUME NEW m \in Nat, NEW a \in Nat, NEW b \in Nat, NEW c \in Nat, NEW d \in Nat,
         NEW s \in Nat, a <= c, b <= d, m + c + d <= s
  PROVE  m + a + b <= s
  OBVIOUS

LEMMA Moved ==
  ASSUME NEW m \in Nat, NEW n \in Nat, NEW a \in Nat, NEW b \in Nat, NEW s \in Nat,
         NEW t \in Nat, n <= m + b, m + a + b <= s + t
  PROVE  n + a + 0 <= s + t
  OBVIOUS

LEMMA Paid ==
  ASSUME NEW m \in Nat, NEW n \in Nat, NEW a \in Nat, NEW b \in Nat,
         NEW s \in Nat, NEW t \in Nat, n <= m + 1, m + a + b <= s + t
  PROVE  n + a + b <= s + (t + 1) /\ (a = 1 => n + 0 + b <= s + t)
  OBVIOUS

LEMMA NumberedAgain ==
  ASSUME NEW x \in Nat, NEW y \in Nat,
         (Create \in late)' => x = 1, Asks({"create"})' => y = 1,
         made' \in Nat, puts' \in Nat, faults' \in Nat, made' + x + y <= puts' + faults',
         \A q \in late' : WellFormed(q)',
         client'.status = "putting" => WellFormed(client.request)'
  PROVE  Numbered'
  <1>1. PICK x1 \in Nat : x1 = (IF (Create \in late)' THEN 1 ELSE 0) /\ x1 <= x
    OBVIOUS
  <1>2. PICK y1 \in Nat : y1 = (IF Asks({"create"})' THEN 1 ELSE 0) /\ y1 <= y
    OBVIOUS
  <1>3. PICK s \in Nat : s = puts' + faults'
    BY Sums
  <1>4. made' + x1 + y1 <= s
    BY <1>1, <1>2, <1>3, Cheaper
  <1> QED
    BY <1>1, <1>2, <1>3, <1>4 DEF Numbered, Create, Ask

LEMMA NumberedNext == ASSUME Typed, Numbered, [Next]_vars PROVE Numbered'
  <1>1. /\ made \in Nat /\ puts \in Nat /\ faults \in Nat
        /\ \A q \in late : WellFormed(q)
        /\ Create.call = "create"
    BY UploadAssumption DEF Typed, Numbered, Create, Ask
  <1>2. PICK a \in Nat, b \in Nat :
          /\ a = 1 <=> Create \in late
          /\ b = 1 <=> Asks({"create"})
          /\ b <= 1 /\ made + a + b <= puts + faults
    <2>1. PICK a \in Nat, b \in Nat :
            /\ a = IF Create \in late THEN 1 ELSE 0
            /\ b = IF Asks({"create"}) THEN 1 ELSE 0
      OBVIOUS
    <2> QED
      BY <2>1 DEF Numbered
  <1>10. /\ a \in Nat /\ b \in Nat /\ made \in Nat /\ puts \in Nat /\ faults \in Nat
         /\ made + a + b <= puts + faults
    BY <1>1, <1>2
  <1>3. CASE UNCHANGED vars
    BY <1>3 DEF Numbered, vars, server, WellFormed, Asks
  <1>4. CASE Begin
    <2>1. PICK call \in {"put", "create"} : client' = Calling(Ask(call, NoUpload, 0))
      BY <1>4 DEF Begin
    <2>2. client'.status = "putting" /\ client'.request = Ask(call, NoUpload, 0)
      BY <2>1, AskType DEF Calls, NoUpload
    <2>3. WellFormed(client.request)'
      BY <2>2 DEF WellFormed, Ask, OfUpload, Create, NoUpload
    <2>4. ~Asks({"create"}) /\ made' = made /\ late' = late /\ puts' = puts + 1 /\ faults' = faults
      BY <1>4 DEF Begin, Asks, server
    <2>5. \A q \in late' : WellFormed(q)'
      BY <1>1, <2>4, StaysWellFormed
    <2>6. puts' \in Nat /\ made' + a + 1 <= puts' + faults'
      BY <1>1, <1>2, <2>4
    <2> QED
      BY <1>1, <1>2, NumberedAgain, <2>3, <2>4, <2>5, <2>6 DEF Create, Ask
  <1>5. CASE Heard
    <2>1. /\ client.status = "putting" /\ Accepts(client.request, TRUE)
          /\ late' = late /\ puts' = puts /\ faults' = faults
      BY <1>5 DEF Heard, Answered
    <2>2. /\ made' \in Nat /\ made <= made' /\ made' <= made + 1
          /\ client.request.call # "create" => made' = made
      BY <2>1, Ready, MadeGrows
    <2>3. \A q \in late' : WellFormed(q)'
      BY <1>1, <2>1, <2>2, StaysWellFormed
    <2>4. client'.status = "putting" => WellFormed(client.request)' /\ ~Asks({"create"})'
      BY <1>5, ReturnsWellFormed DEF Asks
    <2>5. ~Asks({"create"})'
      BY <2>4 DEF Asks
    <2>6. client.request.call = "create" => Asks({"create"})
      BY <2>1 DEF Asks
    <2>7. made' + a + 0 <= puts' + faults'
      <3>1. made' <= made + b
        BY <1>2, <1>10, <2>2, <2>6
      <3> QED
        BY <1>10, <2>1, <2>2, <3>1, Sums, Moved
    <2> QED
      BY <1>1, <1>2, NumberedAgain, <2>1, <2>2, <2>3, <2>4, <2>5, <2>7 DEF Create, Ask
  <1>6. CASE Refused \/ ReadFails
    <2>1. /\ client.status = "putting" /\ made' = made
          /\ \/ client' = Raises(client.request)
             \/ client' = GivesUp(client.request) /\ client.request.call # "abort"
          /\ late' = late /\ puts' = puts /\ faults' = faults
      BY <1>6 DEF Refused, Answered, Refuses, ReadFails, server
    <2>2. client' \in Client
      BY <2>1, RaisesTo, GivesUpTo
    <2>3. /\ client'.status = "putting" => WellFormed(client.request)'
          /\ Asks({"create"})' => Asks({"create"})
      BY <1>1, <2>1, <2>2, NarrowsWellFormed
    <2>4. \A q \in late' : WellFormed(q)'
      BY <1>1, <2>1, StaysWellFormed
    <2> QED
      BY <1>1, <1>2, NumberedAgain, <2>1, <2>3, <2>4 DEF Create, Ask
  <1>7. CASE Faulty
    <2>1. /\ client.status = "putting" /\ client' = Raises(client.request)
          /\ faults' = faults + 1 /\ puts' = puts
      BY <1>7, FaultyShape
    <2>2. client' \in Client
      BY <2>1, RaisesTo
    <2>3. /\ made' \in Nat /\ made <= made' /\ made' <= made + 1
          /\ \/ late' = late /\ (client.request.call # "create" => made' = made)
             \/ late' = late \cup {client.request} /\ made' = made
      <3>1. CASE UNCHANGED server
        <4>1. made' = made
          BY <3>1 DEF server
        <4>2. late' = late \/ late' = late \cup {client.request}
          BY <1>7, FaultyShape
        <4> QED
          BY <1>10, <4>1, <4>2
      <3>2. CASE AnswerLost /\ Accepts(client.request, TRUE) /\ late' = late
        BY <1>1, <2>1, <3>2, Ready, MadeGrows
      <3> QED
        BY <1>7, <3>1, <3>2, FaultyShape
    <2>4. /\ client'.status = "putting" => WellFormed(client.request)'
          /\ Asks({"create"})' => Asks({"create"})
      BY <2>1, <2>2, <2>3, NarrowsWellFormed
    <2>5. \A q \in late' : WellFormed(q)'
      BY <1>1, <2>1, <2>3, Ready, StaysWellFormed
    <2>6. Create = client.request => Asks({"create"})
      BY <1>1, <2>1 DEF Asks
    <2>7. client.request.call = "create" => Asks({"create"})
      BY <2>1 DEF Asks
    <2>8. faults' \in Nat /\ puts' \in Nat
      BY <1>1, <2>1
    <2>9. CASE late' = late /\ (client.request.call # "create" => made' = made)
      <3>1. made' + a + b <= puts' + faults'
        BY <1>10, <2>1, <2>3, Paid
      <3> QED
        BY <1>2, NumberedAgain, <2>3, <2>4, <2>5, <2>8, <2>9, <3>1 DEF Create, Ask
    <2>10. CASE late' = late \cup {client.request} /\ made' = made
      <3>1. PICK x \in Nat : (x = 1 <=> (Create \in late)') /\ x <= a + b
        <4>1. (Create \in late)' => Create \in late \/ Asks({"create"})
          BY <2>6, <2>10 DEF Create, Ask
        <4>2. CASE (Create \in late)'
          <5>1. 1 <= a + b
            BY <1>2, <4>1, <4>2
          <5> QED
            BY <4>2, <5>1
        <4>3. CASE ~(Create \in late)'
          <5>1. 0 <= a + b
            BY <1>2
          <5> QED
            BY <4>3, <5>1
        <4> QED
          BY <4>2, <4>3
      <3>2. made' + x + b <= puts' + faults'
        BY <1>2, <1>10, <2>1, <2>10, <3>1
      <3> QED
        BY <1>2, NumberedAgain, <2>3, <2>4, <2>5, <2>8, <3>1, <3>2
    <2> QED
      BY <2>3, <2>9, <2>10
  <1>8. CASE LateArrives
    <2>1. PICK r \in late :
            /\ WellFormed(r) /\ r \in Request
            /\ \/ Accepts(r, FALSE) /\ excuse' = Unheard(r, TRUE)
               \/ UNCHANGED server /\ UNCHANGED excuse
            /\ late' = late \ {r}
            /\ UNCHANGED <<client, puts, faults>>
      BY <1>8, LateShape
    <2>2. made' \in Nat /\ made <= made' /\ made' <= made + 1 /\ (r.call # "create" => made' = made)
      <3>1. CASE UNCHANGED server
        BY <1>1, <3>1 DEF server
      <3> QED
        BY <1>1, <2>1, <3>1, MadeGrows
    <2>3. \A q \in late' : WellFormed(q)'
      BY <1>1, <2>1, <2>2, StaysWellFormed
    <2>4. client'.status = "putting" => WellFormed(client.request)'
      <3>1. PICK q : q = client.request
        OBVIOUS
      <3>2. ASSUME client.status = "putting" PROVE WellFormed(q)'
        BY <2>2, <3>1, <3>2, Ready, StaysWellFormed
      <3> QED
        BY <2>1, <3>1, <3>2 DEF WellFormed
    <2>5. Asks({"create"})' => Asks({"create"})
      BY <2>1 DEF Asks
    <2>6. r.call = "create" => r = Create
      BY <2>1 DEF WellFormed
    <2>7. (Create \in late)' => Create \in late /\ r # Create
      BY <2>1 DEF Create, Ask
    <2>8. CASE r = Create
      <3>0. a = 1
        BY <1>2, <2>8
      <3>1. made' + 0 + b <= puts' + faults'
        BY <1>10, <2>1, <2>2, <3>0, Paid
      <3> QED
        BY <1>1, <1>2, NumberedAgain, <2>1, <2>2, <2>3, <2>4, <2>5, <2>7, <2>8, <3>1
    <2>9. CASE r # Create
      <3>1. made' + a + b <= puts' + faults'
        BY <1>1, <1>2, <2>1, <2>2, <2>6, <2>9
      <3> QED
        BY <1>1, <1>2, NumberedAgain, <2>1, <2>2, <2>3, <2>4, <2>5, <2>7, <3>1
    <2> QED
      BY <2>8, <2>9
  <1> QED
    BY <1>3, <1>4, <1>5, <1>6, <1>7, <1>8, Steps

\* The server has room for each upload that was made.
LEMMA MadeIds == ASSUME Typed, Numbered, NEW u \in 1..made PROVE u \in UploadIds
  <1>1. made <= MaxPuts + MaxFaults /\ made \in Nat
    BY UploadAssumption DEF Numbered, Typed
  <1> QED
    BY <1>1, UploadAssumption DEF UploadIds

LEMMA AliveNext == ASSUME Typed, Numbered, Alive, [Next]_vars PROVE Alive'
  <1>1. /\ made \in Nat /\ open \subseteq 1..made
        /\ \A q \in late : WellFormed(q)
    BY DEF Typed, Numbered
  <1>2. CASE UNCHANGED vars
    BY <1>2 DEF Alive, vars, server, Asks
  <1>3. CASE Begin
    <2>1. PICK call \in {"put", "create"} : client' = Calling(Ask(call, NoUpload, 0))
      BY <1>3 DEF Begin
    <2>2. client'.request = Ask(call, NoUpload, 0)
      BY <2>1, AskType DEF Calls, NoUpload
    <2> QED
      BY <2>2 DEF Alive, Asks, Ask
  <1>4. CASE Heard
    <2>1. PICK r : r = client.request
      OBVIOUS
    <2>2. /\ client.status = "putting" /\ Accepts(r, TRUE) /\ late' = late
          /\ WellFormed(r) /\ r \in Request
      BY <1>4, <2>1, Ready DEF Heard, Answered
    <2>3. SUFFICES ASSUME Asks({"part", "complete"})'
                   PROVE  Alive'
      BY DEF Alive
    <2>4. r.call \in {"put", "create", "part", "complete"}
      BY <1>4, <2>1, <2>3, ReturnsTo DEF Asks
    <2>5. CASE r.call \in {"put", "complete"}
      BY <1>4, <2>1, <2>3, <2>5, ReturnsTo DEF Asks, Ask
    <2>6. CASE r.call = "create"
      <3>1. client'.request = Ask("part", made', 1)
        BY <1>4, <2>1, <2>6, ReturnsTo
      <3>2. made' = made + 1 /\ open' = open \cup {made + 1}
        BY <2>2, <2>6, Accepted
      <3>3. \A q \in late : q.call = "abort" => q.upload # made + 1
        BY <1>1 DEF WellFormed, OfUpload
      <3> QED
        BY <2>2, <3>1, <3>2, <3>3 DEF Alive, Ask
    <2>7. CASE r.call = "part"
      <3>1. client'.request = IF r.part < Parts THEN Ask("part", r.upload, r.part + 1)
                              ELSE Ask("complete", r.upload, 0)
        BY <1>4, <2>1, <2>7, ReturnsTo
      <3>2. /\ r.upload \in open /\ open' = open /\ r.part \in got'[r.upload]
            /\ got[r.upload] \subseteq got'[r.upload]
        BY <1>1, <2>2, <2>7, Accepted
      <3>3. got'[r.upload] \subseteq 1..Parts
        <4>1. got' \in [UploadIds -> SUBSET (1..Parts)]
          BY <2>2, Accepted
        <4>2. r.upload \in UploadIds
          BY <1>1, <3>2, MadeIds
        <4> QED
          BY <4>1, <4>2
      <3>4. /\ \A q \in late : q.call = "abort" => q.upload # r.upload
            /\ \A n \in 1..Parts : n < r.part => n \in got[r.upload]
        BY <2>1, <2>2, <2>7 DEF Alive, Asks
      <3>5. r.part \in 1..Parts
        BY <2>2, <2>7 DEF WellFormed
      <3>6. CASE r.part < Parts
        <4>1. client'.request = Ask("part", r.upload, r.part + 1)
          BY <3>1, <3>6
        <4>2. \A n \in 1..Parts : n < r.part + 1 => n \in got'[r.upload]
          BY <3>2, <3>4, <3>5
        <4> QED
          BY <2>2, <3>2, <3>4, <4>1, <4>2 DEF Alive, Ask
      <3>7. CASE ~(r.part < Parts)
        <4>1. client'.request = Ask("complete", r.upload, 0)
          BY <3>1, <3>7
        <4>2. got'[r.upload] = 1..Parts
          <5>1. r.part = Parts
            BY <3>5, <3>7, UploadAssumption
          <5>2. ASSUME NEW n \in 1..Parts PROVE n \in got'[r.upload]
            <6>1. CASE n = Parts
              BY <3>2, <5>1, <6>1
            <6>2. CASE n # Parts
              BY <3>2, <3>4, <5>1, <6>2, UploadAssumption
            <6> QED
              BY <6>1, <6>2
          <5> QED
            BY <3>3, <5>2
        <4> QED
          BY <2>2, <3>2, <3>4, <4>1, <4>2 DEF Alive, Ask
      <3> QED
        BY <3>6, <3>7
    <2> QED
      BY <2>4, <2>5, <2>6, <2>7
  <1>5. CASE Refused \/ ReadFails \/ Faulty
    <2>1. /\ client.status = "putting"
          /\ \/ client' = Raises(client.request)
             \/ client' = GivesUp(client.request) /\ client.request.call # "abort"
      BY <1>5, FaultyShape DEF Refused, Answered, ReadFails
    <2>2. Narrows
      BY <2>1, FailureNarrows
    <2>3. SUFFICES ASSUME Asks({"part", "complete"})'
                   PROVE  Alive'
      BY DEF Alive
    <2>4. Asks({"part", "complete"}) /\ client'.request = client.request
      <3>1. client'.request.call # "abort"
        BY <2>3 DEF Asks
      <3> QED
        BY <2>2, <2>3, <3>1 DEF Narrows
    <2>5. PICK r : r = client.request
      OBVIOUS
    <2>6. /\ r.call \in {"part", "complete"}
          /\ r.upload \in open \/ excuse.unheard
          /\ \A q \in late : q.call = "abort" => q.upload # r.upload
          /\ r.call = "part" => \A n \in 1..Parts : n < r.part => n \in got[r.upload]
          /\ r.call = "complete" => got[r.upload] = 1..Parts
      BY <2>4, <2>5 DEF Alive, Asks
    <2>7. late' = late \/ late' = late \cup {r}
      BY <1>5, <2>5, FaultyShape DEF Refused, Answered, ReadFails
    <2>8. \/ open' = open /\ got' = got
          \/ AnswerLost /\ Accepts(r, TRUE)
      BY <1>5, <2>5, FaultyShape DEF Refused, Refuses, ReadFails, server
    <2>9. excuse.unheard => excuse'.unheard
      BY <1>5, LostHistory, AnswerLostHistory, OtherHistories, AnsweredHistory DEF Faulty, Refused
    <2>10. CASE open' = open /\ got' = got
      BY <2>4, <2>5, <2>6, <2>7, <2>9, <2>10 DEF Alive
    <2>11. CASE AnswerLost /\ Accepts(r, TRUE)
      <3>1. WellFormed(r)
        BY <2>1, <2>5, Ready
      <3>2. CASE r.call = "part"
        <4>1. open' = open /\ r.upload \in open
          BY <2>11, <3>1, <3>2, Accepted
        <4>2. got[r.upload] \subseteq got'[r.upload]
          BY <1>1, <2>11, <3>1, <4>1, Accepted
        <4> QED
          BY <2>4, <2>5, <2>6, <2>7, <3>2, <4>1, <4>2 DEF Alive
      <3>3. CASE r.call = "complete"
        <4>1. got' = got
          BY <2>11, <3>1, <3>3, Accepted
        <4>2. excuse'.unheard
          BY <2>5, <2>11, <3>3, AnswerLostHistory
        <4> QED
          BY <2>4, <2>5, <2>6, <2>7, <3>3, <4>1, <4>2 DEF Alive
      <3> QED
        BY <2>6, <3>2, <3>3
    <2> QED
      BY <2>8, <2>10, <2>11
  <1>6. CASE LateArrives
    <2>1. PICK r \in late :
            /\ WellFormed(r) /\ r \in Request
            /\ \/ Accepts(r, FALSE) /\ excuse' = Unheard(r, TRUE)
               \/ UNCHANGED server /\ UNCHANGED excuse
            /\ late' = late \ {r}
            /\ UNCHANGED <<client, puts, faults>>
      BY <1>6, LateShape
    <2>2. CASE UNCHANGED server /\ UNCHANGED excuse
      BY <2>1, <2>2 DEF Alive, Asks, server
    <2>3. CASE Accepts(r, FALSE) /\ excuse' = Unheard(r, TRUE)
      <3>1. SUFFICES ASSUME Asks({"part", "complete"})
                     PROVE  Alive'
        BY <2>1 DEF Alive, Asks
      <3>2. PICK c : c = client.request
        OBVIOUS
      <3>3. /\ c.call \in {"part", "complete"} /\ c.upload \in 1..made
            /\ c.upload \in open \/ excuse.unheard
            /\ \A q \in late : q.call = "abort" => q.upload # c.upload
            /\ c.call = "part" => \A n \in 1..Parts : n < c.part => n \in got[c.upload]
            /\ c.call = "complete" => got[c.upload] = 1..Parts
        BY <3>1, <3>2, Ready DEF Alive, Asks, WellFormed, OfUpload
      <3>4. excuse'.unheard = (excuse.unheard \/ r.call = "complete")
        BY <2>3, UnheardHistory
      <3>5. /\ got[c.upload] \subseteq got'[c.upload]
            /\ got' \in [UploadIds -> SUBSET (1..Parts)]
        BY <2>1, <2>3, <3>3, Accepted
      <3>6. c.upload \in UploadIds
        BY <3>3, MadeIds
      <3>7. c.upload \in open' \/ excuse'.unheard
        <4>1. \/ open \subseteq open'
              \/ open' = open \ {r.upload} /\ r.call \in {"complete", "abort"}
          <5>1. \/ open' = open \/ open' = open \cup {made + 1}
                \/ open' = open \ {r.upload} /\ r.call \in {"complete", "abort"}
            BY <2>1, <2>3, Accepted
          <5> QED
            BY <5>1
        <4> QED
          BY <2>1, <3>3, <3>4, <4>1
      <3>8. c.call = "complete" => got'[c.upload] = 1..Parts
        BY <3>3, <3>5, <3>6
      <3> QED
        BY <2>1, <3>2, <3>3, <3>5, <3>7, <3>8 DEF Alive
    <2> QED
      BY <2>1, <2>2, <2>3
  <1> QED
    BY <1>2, <1>3, <1>4, <1>5, <1>6, Steps

LEMMA RetriedNext == ASSUME Typed, Numbered, Alive, Retried, [Next]_vars PROVE Retried'
  <1>1. /\ Attempts \in Nat /\ 1 <= Attempts /\ excuse \in Excuse /\ excuse.faults \in Nat
        /\ client.attempt \in Nat /\ client.request \in Request
    BY UploadAssumption DEF Typed, Excuse, Client
  <1>2. CASE UNCHANGED vars
    BY <1>2 DEF Retried, RetriesOutlastFaults, Excused, vars, server, Asks
  <1>3. CASE Begin
    <2>1. PICK call \in {"put", "create"} : client' = Calling(Ask(call, NoUpload, 0))
      BY <1>3 DEF Begin
    <2>2. /\ client'.status = "putting" /\ client'.attempt = 1
          /\ client'.request.call = call
      BY <2>1, AskType DEF Calls, NoUpload
    <2>3. excuse'.faults \in Nat
      BY <1>3, OtherHistories DEF Excuse
    <2> QED
      BY <1>1, <2>2, <2>3 DEF Retried, RetriesOutlastFaults, Asks
  <1>4. CASE Heard
    <2>1. PICK r : r = client.request
      OBVIOUS
    <2>2. /\ client.status = "putting" /\ Accepts(r, TRUE) /\ Answered
          /\ WellFormed(r) /\ r \in Request /\ r.call \in Calls
      BY <1>4, <2>1, Ready DEF Heard, Answered, Request
    <2>3. Excused => Excused'
      BY <2>2, AnsweredHistory DEF Excused
    <2>4. excuse'.faults = excuse.faults
      BY <2>2, AnsweredHistory
    <2>5. CASE r.call \in {"put", "complete"}
      <3>1. client'.status = "putting" /\ client'.request = Ask("head", 0, 0) /\ client'.attempt = 1
        BY <1>4, <2>1, <2>5, ReturnsTo
      <3>2. object' = "whole" \/ (object' = "torn" /\ cuts' # cuts)
        BY <2>2, <2>5, Accepted
      <3>3. object' = "torn" => excuse'.cut
        BY <2>2, <3>2, AnsweredHistory
      <3> QED
        BY <1>1, <2>4, <3>1, <3>2, <3>3 DEF Retried, RetriesOutlastFaults, Asks, Ask
    <2>6. CASE r.call \in {"create", "part"}
      <3>1. client'.status = "putting" /\ client'.attempt = 1
            /\ client'.request.call \in {"part", "complete"}
        <4>1. CASE r.call = "create"
          BY <1>4, <2>1, <4>1, ReturnsTo DEF Ask
        <4>2. CASE r.call = "part"
          BY <1>4, <2>1, <4>2, ReturnsTo DEF Ask
        <4> QED
          BY <2>6, <4>1, <4>2
      <3> QED
        BY <1>1, <2>4, <3>1 DEF Retried, RetriesOutlastFaults, Asks
    <2>7. CASE r.call = "abort"
      <3>1. client'.status = "failed" /\ Excused
        BY <1>4, <2>1, <2>2, <2>7, ReturnsTo DEF Retried, Asks
      <3> QED
        BY <2>3, <3>1 DEF Retried, RetriesOutlastFaults, Asks, Excused
    <2>8. CASE r.call = "head"
      <3>1. client'.status = Head
        BY <1>4, <2>1, <2>8, ReturnsTo
      <3>2. object = "whole" \/ excuse.cut
        BY <2>1, <2>2, <2>8 DEF Retried, Asks, Typed
      <3>3. excuse.cut => Excused
        BY DEF Excused
      <3>4. client'.status = "stored" \/ (client'.status = "failed" /\ Excused')
        BY <2>3, <3>1, <3>2, <3>3 DEF Head
      <3> QED
        BY <3>4 DEF Retried, RetriesOutlastFaults, Asks, Excused
    <2> QED
      BY <2>2, <2>5, <2>6, <2>7, <2>8 DEF Calls
  <1>5. CASE Refused \/ ReadFails
    <2>1. /\ client.status = "putting" /\ object' = object
          /\ \/ client' = Raises(client.request)
             \/ client' = GivesUp(client.request) /\ client.request.call # "abort"
      BY <1>5 DEF Refused, Answered, Refuses, ReadFails, server
    <2>2. Excused'
      <3>1. CASE ReadFails
        BY <3>1, OtherHistories DEF Excused
      <3>2. CASE Refused
        <4>1. PICK r : r = client.request
          OBVIOUS
        <4>2. /\ Answered
              /\ \/ r.call = "head" /\ object = "absent"
                 \/ r.call \in {"part", "complete", "abort"} /\ r.upload \notin open
                 \/ r.call = "complete" /\ r.upload \in open /\ got[r.upload] # 1..Parts
          BY <3>2, <4>1 DEF Refused, Refuses
        <4>3. r.call = "head" => object # "absent"
          BY <2>1, <4>1 DEF Retried, Asks
        <4>4. r.call = "abort" => Excused
          BY <2>1, <4>1 DEF Retried, Asks
        <4>5. r.call \in {"part", "complete"} => r.upload \in open \/ excuse.unheard
          BY <2>1, <4>1 DEF Alive, Asks
        <4>6. r.call = "complete" => got[r.upload] = 1..Parts
          BY <2>1, <4>1 DEF Alive, Asks
        <4>7. Excused
          BY <4>2, <4>3, <4>4, <4>5, <4>6 DEF Excused
        <4> QED
          BY <4>2, <4>7, AnsweredHistory DEF Excused
      <3> QED
        BY <1>5, <3>1, <3>2
    <2>3. client'.status = "putting" => client'.attempt \in 1..Attempts
      <3>1. CASE client' = Raises(client.request)
        BY <1>1, <2>1, <3>1, RaisesTo DEF GaveUp, Retried
      <3>2. CASE client' = GivesUp(client.request)
        BY <1>1, <2>1, <3>2, GivesUpTo DEF GaveUp
      <3> QED
        BY <2>1, <3>1, <3>2
    <2>4. Asks({"head"})' => Asks({"head"})
      <3>1. Narrows
        BY <2>1, FailureNarrows
      <3> QED
        BY <3>1 DEF Narrows, Asks
    <2>5. Asks({"head"})' => object' # "absent" /\ (object' = "torn" => excuse'.cut)
      <3>1. excuse.cut => excuse'.cut
        BY <1>5, AnsweredHistory, OtherHistories DEF Refused, ReadFails
      <3> QED
        BY <2>1, <2>4, <3>1 DEF Retried
    <2> QED
      BY <2>2, <2>3, <2>5 DEF Retried, RetriesOutlastFaults, Excused
  <1>6. CASE Faulty
    <2>1. /\ client.status = "putting" /\ client' = Raises(client.request)
      BY <1>6, FaultyShape
    <2>2. /\ excuse'.faults = excuse.faults + 1
          /\ excuse'.unread = excuse.unread
      BY <1>6, LostHistory, AnswerLostHistory DEF Faulty
    <2>3. excuse.cut => excuse'.cut
      BY <1>6, LostHistory, AnswerLostHistory DEF Faulty
    <2>4. excuse.unheard => excuse'.unheard
      BY <1>6, LostHistory, AnswerLostHistory DEF Faulty
    <2>5. Excused => Excused'
      BY <1>1, <2>2, <2>3, <2>4 DEF Excused
    <2>6. /\ client.attempt \in 1..Attempts
          /\ Excused' \/ excuse'.faults >= client.attempt
      BY <1>1, <2>1, <2>2, <2>5 DEF Retried
    <2>7. PICK r : r = client.request
      OBVIOUS
    <2>8. \/ /\ client'.status = "putting" /\ client'.request = r
             /\ client'.attempt = client.attempt + 1
             /\ client.attempt < Attempts
          \/ /\ r.call = "abort" \/ client.attempt >= Attempts
             /\ GaveUp(r)
      BY <2>1, <2>7, RaisesTo
    <2>9. Asks({"head"})' => object' # "absent" /\ (object' = "torn" => excuse'.cut)
      <3>1. SUFFICES ASSUME Asks({"head"})'
                     PROVE  object' # "absent" /\ (object' = "torn" => excuse'.cut)
        OBVIOUS
      <3>2. r.call = "head" /\ Asks({"head"})
        BY <2>1, <2>7, <2>8, <3>1 DEF Asks, GaveUp, Ask
      <3>3. object' = object
        <4>1. CASE UNCHANGED server
          BY <4>1 DEF server
        <4>2. CASE Accepts(r, TRUE)
          BY <3>2, <4>2 DEF Accepts, server
        <4> QED
          BY <1>6, <2>7, <4>1, <4>2, FaultyShape
      <3> QED
        BY <2>3, <3>2, <3>3 DEF Retried
    <2>10. CASE /\ client'.status = "putting" /\ client'.request = r
                /\ client'.attempt = client.attempt + 1
                /\ client.attempt < Attempts
      <3>1. client'.attempt \in 1..Attempts /\ (Excused' \/ excuse'.faults >= client'.attempt - 1)
        BY <1>1, <2>6, <2>10
      <3>2. Asks({"abort"})' => Excused'
        BY <2>1, <2>5, <2>7, <2>10 DEF Retried, Asks
      <3> QED
        BY <2>9, <2>10, <3>1, <3>2 DEF Retried, RetriesOutlastFaults
    <2>11. CASE (r.call = "abort" \/ client.attempt >= Attempts) /\ GaveUp(r)
      <3>1. r.call = "abort" => Excused'
        BY <2>1, <2>5, <2>7 DEF Retried, Asks
      <3>2. client.attempt >= Attempts => Excused'
        BY <1>1, <2>2, <2>6 DEF Excused
      <3>3. Excused'
        BY <2>11, <3>1, <3>2
      <3>4. client'.status = "putting" => client'.attempt \in 1..Attempts
        BY <1>1, <2>11 DEF GaveUp
      <3> QED
        BY <2>9, <3>3, <3>4 DEF Retried, RetriesOutlastFaults, Excused
    <2> QED
      BY <2>8, <2>10, <2>11
  <1>7. CASE LateArrives
    <2>1. PICK r \in late :
            /\ WellFormed(r) /\ r \in Request
            /\ \/ Accepts(r, FALSE) /\ excuse' = Unheard(r, TRUE)
               \/ UNCHANGED server /\ UNCHANGED excuse
            /\ late' = late \ {r}
            /\ UNCHANGED <<client, puts, faults>>
      BY <1>7, LateShape
    <2>2. CASE UNCHANGED server /\ UNCHANGED excuse
      BY <2>1, <2>2 DEF Retried, RetriesOutlastFaults, Excused, Asks, server
    <2>3. CASE Accepts(r, FALSE) /\ excuse' = Unheard(r, TRUE)
      <3>1. /\ excuse'.faults = excuse.faults /\ excuse'.unread = excuse.unread
            /\ excuse'.unheard = (excuse.unheard \/ r.call = "complete")
            /\ excuse'.cut = (excuse.cut \/ cuts' # cuts)
        BY <2>3, UnheardHistory
      <3>2. Excused => Excused'
        BY <3>1 DEF Excused
      <3>3. object' = "whole" \/ object' = object
        BY <2>1, <2>3, Accepted
      <3>4. client.status = "putting" =>
              client.attempt \in 1..Attempts /\ (Excused' \/ excuse'.faults >= client.attempt - 1)
        BY <3>1, <3>2 DEF Retried
      <3>5. Asks({"head"}) => object' # "absent" /\ (object' = "torn" => excuse'.cut)
        BY <3>1, <3>3 DEF Retried
      <3>6. client.status = "failed" => Excused'
        BY <3>2 DEF Retried, RetriesOutlastFaults, Excused
      <3> QED
        BY <2>1, <3>2, <3>4, <3>5, <3>6 DEF Retried, RetriesOutlastFaults, Asks, Excused
    <2> QED
      BY <2>1, <2>2, <2>3
  <1> QED
    BY <1>2, <1>3, <1>4, <1>5, <1>6, <1>7, Steps

LEMMA OpenFinite == ASSUME Typed PROVE IsFiniteSet(open) /\ Cardinality(open) \in Nat
  <1>1. IsFiniteSet(1..made)
    BY FS_Interval DEF Typed
  <1> QED
    BY <1>1, FS_Subset, FS_CardinalityType DEF Typed

\* What is open and not the client's: smaller, or with one upload more.
LEMMA Shrinks ==
  ASSUME NEW S, NEW T, IsFiniteSet(T), S \subseteq T
  PROVE  Cardinality(S) \in Nat /\ Cardinality(T) \in Nat /\ Cardinality(S) <= Cardinality(T)
  BY FS_Subset, FS_CardinalityType

LEMMA Grows ==
  ASSUME NEW S, NEW T, NEW x, IsFiniteSet(T), S \subseteq T \cup {x}
  PROVE  Cardinality(S) \in Nat /\ Cardinality(T) \in Nat /\ Cardinality(S) <= Cardinality(T) + 1
  <1>1. IsFiniteSet(T \cup {x}) /\ Cardinality(T) \in Nat
        /\ Cardinality(T \cup {x}) <= Cardinality(T) + 1
    <2>1. /\ IsFiniteSet(T \cup {x}) /\ Cardinality(T) \in Nat
          /\ Cardinality(T \cup {x}) = IF x \in T THEN Cardinality(T) ELSE Cardinality(T) + 1
      BY FS_AddElement, FS_CardinalityType
    <2> QED
      BY <2>1
  <1>2. /\ Cardinality(S) \in Nat /\ Cardinality(T \cup {x}) \in Nat
        /\ Cardinality(S) <= Cardinality(T \cup {x})
    BY <1>1, Shrinks
  <1> QED
    BY <1>1, <1>2

\* An upload more that nobody will abort is one more orphan.
LEMMA AccountedAgain ==
  ASSUME Typed, Accounted, excuse'.orphans \in Nat,
         \/ /\ (open \ Current)' \subseteq open \ Current
            /\ excuse.orphans <= excuse'.orphans
         \/ /\ \E x : (open \ Current)' \subseteq (open \ Current) \cup {x}
            /\ excuse'.orphans = excuse.orphans + 1
  PROVE  Accounted'
  <1>1. PICK S, T : S = (open \ Current)' /\ T = open \ Current
    OBVIOUS
  <1>2. IsFiniteSet(T)
    BY <1>1, OpenFinite, FS_Subset
  <1>3. excuse.orphans \in Nat /\ Cardinality(T) <= excuse.orphans
    BY <1>1 DEF Accounted, Typed, Excuse
  <1>4. CASE S \subseteq T /\ excuse.orphans <= excuse'.orphans
    <2>1. Cardinality(S) \in Nat /\ Cardinality(T) \in Nat /\ Cardinality(S) <= Cardinality(T)
      BY <1>2, <1>4, Shrinks
    <2>2. Cardinality(S) <= excuse'.orphans
      BY <1>3, <1>4, <2>1
    <2> QED
      BY <1>1, <2>2 DEF Accounted
  <1>5. CASE (\E x : S \subseteq T \cup {x}) /\ excuse'.orphans = excuse.orphans + 1
    <2>1. Cardinality(S) \in Nat /\ Cardinality(T) \in Nat /\ Cardinality(S) <= Cardinality(T) + 1
      BY <1>2, <1>5, Grows
    <2>2. Cardinality(S) <= excuse'.orphans
      BY <1>3, <1>5, <2>1
    <2> QED
      BY <1>1, <2>2 DEF Accounted
  <1> QED
    BY <1>1, <1>4, <1>5

LEMMA AccountedNext == ASSUME Typed, Numbered, Accounted, [Next]_vars PROVE Accounted'
  <1>1. /\ made \in Nat /\ open \subseteq 1..made /\ excuse.orphans \in Nat
        /\ made + 1 \notin open
    BY DEF Typed, Excuse
  <1>2. CASE UNCHANGED vars
    BY <1>2 DEF Accounted, vars, server, Current, Asks
  <1>3. CASE Begin
    <2>1. PICK call \in {"put", "create"} : client' = Calling(Ask(call, NoUpload, 0))
      BY <1>3 DEF Begin
    <2>2. client'.request.call = call
      BY <2>1, AskType DEF Calls, NoUpload
    <2>3. Current = {} /\ Current' = {} /\ open' = open
      BY <1>3, <2>2 DEF Begin, Current, Asks, OfUpload, server
    <2>4. excuse'.orphans = excuse.orphans
      BY <1>3, OtherHistories
    <2> QED
      BY <1>1, <2>3, <2>4, AccountedAgain
  <1>4. CASE Heard
    <2>1. PICK r : r = client.request
      OBVIOUS
    <2>2. /\ client.status = "putting" /\ Accepts(r, TRUE) /\ Answered
          /\ WellFormed(r) /\ r \in Request /\ r.call \in Calls
      BY <1>4, <2>1, Ready DEF Heard, Answered, Request
    <2>3. excuse'.orphans = excuse.orphans
      BY <2>2, AnsweredHistory
    <2>4. CASE r.call \in {"put", "head"}
      <3>1. open' = open
        BY <2>2, <2>4, Accepted
      <3>2. Current = {}
        BY <2>1, <2>4 DEF Current, Asks, OfUpload
      <3> QED
        BY <1>1, <2>3, <3>1, <3>2, AccountedAgain
    <2>5. CASE r.call = "create"
      <3>1. open' = open \cup {made + 1} /\ made' = made + 1
        BY <2>2, <2>5, Accepted
      <3>2. client'.status = "putting" /\ client'.request = Ask("part", made', 1)
        BY <1>4, <2>1, <2>5, ReturnsTo
      <3>3. Current = {} /\ Current' = {made + 1}
        BY <2>1, <2>5, <3>1, <3>2 DEF Current, Asks, OfUpload, Ask
      <3> QED
        BY <1>1, <2>3, <3>1, <3>3, AccountedAgain
    <2>6. CASE r.call = "part"
      <3>1. open' = open
        BY <2>2, <2>6, Accepted
      <3>2. /\ client'.status = "putting"
            /\ client'.request = IF r.part < Parts THEN Ask("part", r.upload, r.part + 1)
                                 ELSE Ask("complete", r.upload, 0)
        BY <1>4, <2>1, <2>6, ReturnsTo
      <3>3. Current = {r.upload} /\ Current' = {r.upload}
        BY <2>1, <2>2, <2>6, <3>2 DEF Current, Asks, OfUpload, Ask
      <3> QED
        BY <1>1, <2>3, <3>1, <3>3, AccountedAgain
    <2>7. CASE r.call \in {"complete", "abort"}
      <3>1. open' = open \ {r.upload}
        BY <2>2, <2>7, Accepted
      <3>2. Current = {r.upload}
        BY <2>1, <2>2, <2>7 DEF Current, Asks, OfUpload
      <3> QED
        BY <1>1, <2>3, <3>1, <3>2, AccountedAgain
    <2> QED
      BY <2>2, <2>4, <2>5, <2>6, <2>7 DEF Calls
  <1>5. CASE Refused
    <2>1. PICK r : r = client.request
      OBVIOUS
    <2>2. /\ client.status = "putting" /\ Answered /\ open' = open
          /\ client' = Raises(client.request)
          /\ r.call = "abort" => r.upload \notin open
      BY <1>5, <2>1 DEF Refused, Answered, Refuses, server
    <2>3. IF r.call = "abort" THEN ~Asks(OfUpload)' ELSE Current' = Current
      BY <2>1, <2>2, FailureNarrows DEF Narrows
    <2>4. (open \ Current)' \subseteq open \ Current
      <3>1. CASE r.call = "abort"
        BY <2>1, <2>2, <3>1 DEF Current
      <3>2. CASE r.call # "abort"
        BY <2>2, <2>3, <3>2
      <3> QED
        BY <3>1, <3>2
    <2>5. excuse'.orphans = excuse.orphans
      BY <2>2, AnsweredHistory
    <2> QED
      BY <1>1, <2>4, <2>5, AccountedAgain
  <1>6. CASE ReadFails
    <2>1. /\ client.status = "putting" /\ open' = open
          /\ client' = GivesUp(client.request) /\ client.request.call # "abort"
      BY <1>6 DEF ReadFails, server
    <2>2. Current' = Current
      BY <2>1, FailureNarrows DEF Narrows
    <2>3. excuse'.orphans = excuse.orphans
      BY <1>6, OtherHistories
    <2> QED
      BY <1>1, <2>1, <2>2, <2>3, AccountedAgain
  <1>7. CASE Faulty
    <2>1. PICK r : r = client.request
      OBVIOUS
    <2>2. /\ client.status = "putting" /\ client' = Raises(client.request)
          /\ WellFormed(r) /\ r \in Request /\ r.call \in Calls
      BY <1>7, <2>1, FaultyShape, Ready DEF Request
    <2>3. IF r.call = "abort" THEN ~Asks(OfUpload)' ELSE Current' = Current
      BY <2>1, <2>2, FailureNarrows DEF Narrows
    <2>4. r.call = "abort" => Current = {r.upload} /\ Current' = {}
      BY <2>1, <2>2, <2>3 DEF Current, Asks, OfUpload
    <2>5. CASE RequestLost \/ RequestDelayed
      <3>1. open' = open
        BY <2>5 DEF RequestLost, RequestDelayed, server
      <3>2. excuse'.orphans = excuse.orphans + (IF r.call = "abort" THEN 1 ELSE 0)
        BY <2>1, <2>5, LostHistory
      <3>3. CASE r.call = "abort"
        <4>1. (open \ Current)' \subseteq (open \ Current) \cup {r.upload}
          BY <2>4, <3>1, <3>3
        <4> QED
          BY <1>1, <3>2, <3>3, <4>1, AccountedAgain
      <3>4. CASE r.call # "abort"
        BY <1>1, <2>3, <3>1, <3>2, <3>4, AccountedAgain
      <3> QED
        BY <3>3, <3>4
    <2>6. CASE AnswerLost
      <3>1. Accepts(r, TRUE)
        BY <2>1, <2>6 DEF AnswerLost
      <3>2. excuse'.orphans = excuse.orphans + (IF r.call = "create" THEN 1 ELSE 0)
        BY <2>1, <2>6, AnswerLostHistory
      <3>3. CASE r.call = "create"
        <4>1. open' = open \cup {made + 1}
          BY <2>2, <3>1, <3>3, Accepted
        <4>2. (open \ Current)' \subseteq (open \ Current) \cup {made + 1}
          BY <2>3, <3>3, <4>1
        <4> QED
          BY <1>1, <3>2, <3>3, <4>2, AccountedAgain
      <3>4. CASE r.call # "create"
        <4>1. open' = open \/ open' = open \ {r.upload}
          BY <2>2, <3>1, <3>4, Accepted
        <4>2. r.call = "abort" => open' = open \ {r.upload}
          BY <2>2, <3>1, Accepted
        <4>3. (open \ Current)' \subseteq open \ Current
          <5>1. CASE r.call = "abort"
            BY <2>4, <4>2, <5>1
          <5>2. CASE r.call # "abort"
            BY <2>3, <4>1, <5>2
          <5> QED
            BY <5>1, <5>2
        <4>4. excuse'.orphans = excuse.orphans
          BY <1>1, <3>2, <3>4
        <4> QED
          BY <1>1, <4>3, <4>4, AccountedAgain
      <3> QED
        BY <3>3, <3>4
    <2> QED
      BY <1>7, <2>5, <2>6 DEF Faulty
  <1>8. CASE LateArrives
    <2>1. PICK r \in late :
            /\ WellFormed(r) /\ r \in Request
            /\ \/ Accepts(r, FALSE) /\ excuse' = Unheard(r, TRUE)
               \/ UNCHANGED server /\ UNCHANGED excuse
            /\ late' = late \ {r}
            /\ UNCHANGED <<client, puts, faults>>
      BY <1>8, LateShape
    <2>2. Current' = Current
      BY <2>1 DEF Current, Asks
    <2>3. CASE UNCHANGED server /\ UNCHANGED excuse
      BY <1>1, <2>2, <2>3, AccountedAgain DEF server
    <2>4. CASE Accepts(r, FALSE) /\ excuse' = Unheard(r, TRUE)
      <3>1. excuse'.orphans = excuse.orphans + (IF r.call = "create" THEN 1 ELSE 0)
        BY <2>4, UnheardHistory
      <3>2. CASE r.call = "create"
        <4>1. open' = open \cup {made + 1}
          BY <2>1, <2>4, <3>2, Accepted
        <4>2. (open \ Current)' \subseteq (open \ Current) \cup {made + 1}
          BY <2>2, <4>1
        <4> QED
          BY <1>1, <3>1, <3>2, <4>2, AccountedAgain
      <3>3. CASE r.call # "create"
        <4>1. open' = open \/ open' = open \ {r.upload}
          BY <2>1, <2>4, <3>3, Accepted
        <4>2. (open \ Current)' \subseteq open \ Current
          BY <2>2, <4>1
        <4>3. excuse'.orphans = excuse.orphans
          BY <1>1, <3>1, <3>3
        <4> QED
          BY <1>1, <4>2, <4>3, AccountedAgain
      <3> QED
        BY <3>2, <3>3
    <2> QED
      BY <2>1, <2>3, <2>4
  <1> QED
    BY <1>2, <1>3, <1>4, <1>5, <1>6, <1>7, <1>8, Steps

-----------------------------------------------------------------------------
LEMMA InvInit == Init => Inv
  <1> SUFFICES ASSUME Init PROVE Inv
    OBVIOUS
  <1>1. Typed
    BY TypedInit
  <1>2. client.status = "none" /\ late = {} /\ open = {} /\ made = 0 /\ puts = 0 /\ faults = 0
        /\ excuse.orphans = 0
    BY DEF Init
  <1>3. Numbered
    BY <1>2 DEF Numbered, Asks
  <1>4. Alive /\ Retried
    BY <1>2 DEF Alive, Retried, RetriesOutlastFaults, Asks
  <1>5. Accounted
    <2>1. open \ Current = {} /\ Cardinality({}) = 0
      BY <1>2, FS_EmptySet
    <2> QED
      BY <1>2, <2>1 DEF Accounted
  <1> QED
    BY <1>1, <1>3, <1>4, <1>5 DEF Inv

LEMMA InvNext == Inv /\ [Next]_vars => Inv'
  BY TypedNext, NumberedNext, AliveNext, RetriedNext, AccountedNext DEF Inv

LEMMA InvHolds == Spec => []Inv
  BY InvInit, InvNext, PTL DEF Spec

(***************************************************************************)
(* A put fails only after as many faults as call_with_retry has attempts,  *)
(* or because of a cut-short object, an unreadable file or a completion    *)
(* nobody heard of, whatever is lost, delayed or executed late.            *)
(***************************************************************************)
THEOREM OutlastsFaults == Spec => []RetriesOutlastFaults
  <1>1. Inv => RetriesOutlastFaults
    BY DEF Inv, Retried
  <1> QED
    BY <1>1, InvHolds, PTL

(***************************************************************************)
(* Between puts there are at most as many multipart uploads left open as   *)
(* creates that were executed unheard and aborts that did not arrive in    *)
(* time.                                                                   *)
(***************************************************************************)
THEOREM OpenUploadsAccountedFor == Spec => []UploadsAccountedFor
  <1>1. ASSUME Inv, client.status # "putting"
        PROVE  Cardinality(open) <= excuse.orphans
    <2>1. open \ Current = open
      BY <1>1 DEF Current, Asks
    <2> QED
      BY <1>1, <2>1 DEF Inv, Accounted
  <1>2. Inv => UploadsAccountedFor
    BY <1>1 DEF UploadsAccountedFor
  <1> QED
    BY <1>2, InvHolds, PTL
=============================================================================
