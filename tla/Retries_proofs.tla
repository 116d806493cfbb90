--------------------------- MODULE Retries_proofs ---------------------------
(***************************************************************************)
(* Theorems about Retries: a listing is whole or fails, a call costs a     *)
(* bounded number of requests, and a listing that met an error stays       *)
(* broken, for all limits, page sizes and bounds.                          *)
(***************************************************************************)
EXTENDS Retries, TLAPS

(* The iterator never promises a page beyond the bound. *)
PagesInv == more => pages < MaxPages

(* What the caller has and what the iterator still holds is all there was, *)
(* and a listing only succeeds with nothing left.                          *)
ListingInv ==
  call.name \in Paged =>
    /\ result + buffer = fetched
    /\ status = "succeeded" => buffer = 0 /\ ~more /\ ~broken

(* A single call has sent one request for each retry, and one more when it *)
(* has ended; a listing, one for each page since the last item, and one    *)
(* more for the page that failed.                                          *)
RequestInv ==
  /\ call.limit >= 0 => retries <= call.limit
  /\ call.name \in Single /\ call.limit >= 0 =>
       requests <= retries + (IF Ended THEN 1 ELSE 0)
  /\ call.name \in Paged => requests <= pages + (IF broken THEN 1 ELSE 0)

BrokenInv == broken => call.name \in Paged /\ status # "succeeded"

IInv == TypeOK /\ PagesInv /\ ListingInv /\ RequestInv /\ BrokenInv

-----------------------------------------------------------------------------
LEMMA NamesDiffer == Single \cap Paged = {}
BY DEF Single, Paged

LEMMA Types ==
  ASSUME TypeOK
  PROVE  /\ call.limit \in Int /\ call.name \in Single \cup Paged
         /\ requests \in Nat /\ retries \in Nat /\ pages \in Nat
<1>1. call.limit \in Limits /\ call.name \in Single \cup Paged
  BY DEF TypeOK
<1>2. requests \in Nat /\ retries \in Nat /\ pages \in Nat
  BY Bounds DEF TypeOK
<1> QED
  BY <1>1, <1>2, Bounds

LEMMA InitEstablishes == Init => IInv
<1> SUFFICES ASSUME Init PROVE IInv
  OBVIOUS
<1> USE Bounds
<1>1. TypeOK
  <2>1. call \in [name: Single \cup Paged, limit: Limits]
    BY DEF Init
  <2>2. status \in {"trying", "pausing", "succeeded", "failed"} /\ answer \in Answers
    BY DEF Init, Answers
  <2>3. canceled \in BOOLEAN /\ broken \in BOOLEAN /\ more \in BOOLEAN
    BY Zenon DEF Init
  <2>4. /\ retries \in Nat /\ requests \in 0 .. MaxRequests
        /\ buffer \in Nat /\ fetched \in Nat /\ pages \in 0 .. MaxPages /\ result \in Nat
    BY DEF Init
  <2> QED
    BY <2>1, <2>2, <2>3, <2>4 DEF TypeOK
<1>2. PagesInv /\ ListingInv /\ BrokenInv
  BY DEF Init, PagesInv, ListingInv, BrokenInv
<1>3. RequestInv
  BY DEF Init, RequestInv, Ended
<1> QED
  BY <1>1, <1>2, <1>3 DEF IInv

(* The caps: a request is counted, or not, and the count keeps its type. *)
LEMMA SentIsBounded ==
  ASSUME TypeOK, Sent
  PROVE  requests' \in 0 .. MaxRequests /\ requests' <= requests + 1
BY Bounds DEF TypeOK, Sent

(* What TryAgain makes of the status and of the retries. *)
LEMMA TryAgainIsBounded ==
  ASSUME TypeOK, TryAgain, call.limit >= 0 => retries <= call.limit
  PROVE  /\ status' \in {"pausing", "failed"}
         /\ retries' \in Nat
         /\ call.limit >= 0 => retries' <= call.limit
         /\ status' = "pausing" /\ call.limit >= 0 => retries' = retries + 1
         /\ status' = "failed" => retries' = retries
<1> QED
  BY Types DEF TryAgain

LEMMA RequestKeeps == IInv /\ Request => IInv'
<1> SUFFICES ASSUME IInv, Request PROVE IInv'
  OBVIOUS
<1> USE DEF IInv
<1>1. /\ call' = call /\ canceled' = canceled /\ iterator' = iterator
      /\ call.name \in Single /\ call.name \notin Paged /\ ~Ended
      /\ status' \in {"pausing", "failed", "succeeded"}
      /\ retries' \in Nat /\ result' \in Nat /\ answer' \in Answers
      /\ call.limit >= 0 => retries' <= call.limit
      /\ status' = "pausing" /\ call.limit >= 0 => retries' = retries + 1
      /\ status' # "pausing" => retries' = retries
  BY NamesDiffer, TryAgainIsBounded
     DEF Request, CanSend, Ended, TypeOK, RequestInv, Answers
<1>2. requests' \in 0 .. MaxRequests /\ requests' <= requests + 1
  BY SentIsBounded DEF Request
<1>3. TypeOK'
  BY <1>1, <1>2 DEF TypeOK, iterator
<1>4. PagesInv' /\ ListingInv' /\ BrokenInv'
  BY <1>1 DEF PagesInv, ListingInv, BrokenInv, iterator
<1>5. RequestInv'
  <2>1. call.limit >= 0 => requests <= retries
    BY <1>1 DEF RequestInv, TypeOK
  <2>2. requests \in Nat /\ retries \in Nat /\ requests' \in Nat
    BY <1>2, Bounds DEF TypeOK
  <2>3. CASE status' = "pausing"
    <3>1. ~Ended'
      BY <2>3 DEF Ended
    <3>2. call.limit >= 0 => requests' <= retries'
      BY <1>1, <1>2, <2>1, <2>2, <2>3
    <3> QED
      BY <1>1, <3>1, <3>2, Types DEF RequestInv
  <2>4. CASE status' # "pausing"
    <3>1. Ended'
      BY <1>1, <2>4 DEF Ended
    <3>2. call.limit >= 0 => requests' <= retries' + 1
      BY <1>1, <1>2, <2>1, <2>2, <2>4
    <3> QED
      BY <1>1, <3>1, <3>2, Types DEF RequestInv
  <2> QED
    BY <2>3, <2>4
<1> QED
  BY <1>3, <1>4, <1>5

LEMMA NextBufferedKeeps == IInv /\ NextBuffered => IInv'
<1> SUFFICES ASSUME IInv, NextBuffered PROVE IInv'
  OBVIOUS
<1> USE Bounds DEF IInv
<1>1. TypeOK'
  BY DEF TypeOK, NextBuffered, Return
<1>2. PagesInv' /\ BrokenInv'
  BY DEF PagesInv, BrokenInv, NextBuffered, TypeOK
<1>3. ListingInv'
  BY DEF ListingInv, NextBuffered, Return, CanSend, TypeOK
<1>4. RequestInv'
  BY NamesDiffer DEF RequestInv, NextBuffered, Return, TypeOK
<1> QED
  BY <1>1, <1>2, <1>3, <1>4

LEMMA NextPageKeeps == IInv /\ NextPage => IInv'
<1> SUFFICES ASSUME IInv, NextPage PROVE IInv'
  OBVIOUS
<1> USE Bounds DEF IInv
<1>1. requests' \in 0 .. MaxRequests /\ requests' <= requests + 1
  BY SentIsBounded DEF NextPage
<1>2. pages' = pages + 1 /\ pages < MaxPages /\ more' \in BOOLEAN
      /\ (more' => pages + 1 < MaxPages)
  BY DEF NextPage, PagesInv
<1>3. TypeOK'
  BY <1>1, <1>2 DEF TypeOK, NextPage, Answers
<1>4. PagesInv' /\ BrokenInv'
  BY <1>2 DEF PagesInv, BrokenInv, NextPage
<1>5. ListingInv'
  BY DEF ListingInv, NextPage, CanSend, TypeOK
<1>6. RequestInv'
  BY <1>1, <1>2, NamesDiffer DEF RequestInv, NextPage, TypeOK
<1> QED
  BY <1>3, <1>4, <1>5, <1>6

LEMMA NextFailsKeeps == IInv /\ NextFails => IInv'
<1> SUFFICES ASSUME IInv, NextFails PROVE IInv'
  OBVIOUS
<1> USE DEF IInv
<1>1. requests' \in 0 .. MaxRequests /\ requests' <= requests + 1
  BY SentIsBounded DEF NextFails
<1>2. /\ status' \in {"pausing", "failed"} /\ retries' \in Nat
      /\ call.limit >= 0 => retries' <= call.limit
  BY TryAgainIsBounded DEF NextFails, RequestInv
<1>3. TypeOK'
  BY <1>1, <1>2 DEF TypeOK, NextFails, Answers
<1>4. PagesInv' /\ BrokenInv' /\ ListingInv'
  BY <1>2 DEF PagesInv, BrokenInv, ListingInv, NextFails
<1>5. RequestInv'
  <2>1. call' = call /\ call.name \notin Single /\ ~broken /\ broken' /\ pages' = pages
    BY NamesDiffer DEF NextFails
  <2>2. requests <= pages
    BY <2>1, Types DEF RequestInv, NextFails
  <2>3. requests' <= pages' + 1
    BY <1>1, <2>1, <2>2, Types
  <2> QED
    BY <1>2, <2>1, <2>3 DEF RequestInv
<1> QED
  BY <1>3, <1>4, <1>5

LEMMA NextFailsAgainKeeps == IInv /\ NextFailsAgain => IInv'
<1> SUFFICES ASSUME IInv, NextFailsAgain PROVE IInv'
  OBVIOUS
<1> USE DEF IInv
<1>1. /\ status' \in {"pausing", "failed"} /\ retries' \in Nat
      /\ call.limit >= 0 => retries' <= call.limit
  BY TryAgainIsBounded DEF NextFailsAgain, RequestInv
<1>2. TypeOK'
  BY <1>1 DEF TypeOK, NextFailsAgain, iterator
<1>3. PagesInv' /\ BrokenInv' /\ ListingInv'
  BY <1>1 DEF PagesInv, BrokenInv, ListingInv, NextFailsAgain, iterator
<1>4. RequestInv'
  BY <1>1, NamesDiffer DEF RequestInv, NextFailsAgain, iterator, TypeOK
<1> QED
  BY <1>2, <1>3, <1>4

(* Done, Resume, GiveUp and Cancel change the status or the context alone. *)
LEMMA QuietStepsKeep == IInv /\ (Done \/ Resume \/ GiveUp \/ Cancel) => IInv'
<1> SUFFICES ASSUME IInv, Done \/ Resume \/ GiveUp \/ Cancel PROVE IInv'
  OBVIOUS
<1> USE DEF IInv
<1>1. /\ UNCHANGED <<call, retries, requests, answer, iterator, result>>
      /\ canceled' \in BOOLEAN /\ status' \in {"trying", "pausing", "succeeded", "failed"}
      /\ ~Ended
  BY DEF Done, Resume, GiveUp, Cancel, CanSend, Ended, TypeOK
<1>2. status' = "succeeded" => call.name \in Paged /\ ~broken /\ buffer = 0 /\ ~more
  BY DEF Done, Resume, GiveUp, Cancel, CanSend, Ended
<1>3. TypeOK'
  BY <1>1 DEF TypeOK, iterator
<1>4. PagesInv' /\ BrokenInv' /\ ListingInv'
  BY <1>1, <1>2 DEF PagesInv, BrokenInv, ListingInv, iterator
<1>5. RequestInv'
  BY <1>1 DEF RequestInv, iterator, Ended, TypeOK
<1> QED
  BY <1>3, <1>4, <1>5

LEMMA StutterKeeps == IInv /\ UNCHANGED vars => IInv'
BY DEF IInv, vars, iterator, TypeOK, PagesInv, ListingInv, RequestInv, BrokenInv, Ended

LEMMA NextKeeps == IInv /\ [Next]_vars => IInv'
BY RequestKeeps, NextBufferedKeeps, NextPageKeeps, NextFailsKeeps,
   NextFailsAgainKeeps, QuietStepsKeep, StutterKeeps
   DEF Next, Proceed

THEOREM Invariance == Spec => []IInv
BY InitEstablishes, NextKeeps, PTL DEF Spec

-----------------------------------------------------------------------------
(* Types of a retried call and of the iterator it may page through. *)
THEOREM TypeCorrect == Spec => []TypeOK
<1>1. IInv => TypeOK
  BY DEF IInv
<1> QED
  BY <1>1, Invariance, PTL

(* FindProjects and ListWorkerPools return every item of every page, or    *)
(* fail: no retry makes them return a part.                                *)
THEOREM ListingsAreWholeOrFail == Spec => []ListingsAreWhole
<1>1. IInv => ListingsAreWhole
  BY DEF IInv, ListingInv, ListingsAreWhole, TypeOK
<1> QED
  BY <1>1, Invariance, PTL

(* With retries limited, one result costs at most limit + 1 requests, and  *)
(* on a listing one more for every page.                                   *)
THEOREM CallsAreBounded == Spec => []RequestsAreBounded
<1>1. IInv => RequestsAreBounded
  <2> SUFFICES ASSUME IInv, call.limit >= 0
               PROVE  requests <= call.limit + 1 + pages
    BY DEF RequestsAreBounded
  <2>1. /\ call.limit \in Int /\ call.name \in Single \cup Paged
        /\ requests \in Nat /\ retries \in Nat /\ pages \in Nat
    BY Types DEF IInv
  <2>2. CASE call.name \in Single
    BY <2>1, <2>2 DEF IInv, RequestInv
  <2>3. CASE call.name \in Paged
    BY <2>1, <2>3 DEF IInv, RequestInv
  <2> QED
    BY <2>1, <2>2, <2>3
<1> QED
  BY <1>1, Invariance, PTL

(* The iterator keeps its first error: once a page could not be fetched,   *)
(* the listing never succeeds.                                             *)
THEOREM BrokenListingsStayBroken == Spec => BrokenListingsFail
<1>1. IInv => (broken => status # "succeeded")
  BY DEF IInv, BrokenInv
<1>2. [Next]_vars => (broken => broken')
  BY DEF Next, Proceed, Request, NextBuffered, NextPage, NextFails,
         NextFailsAgain, Done, Resume, GiveUp, Cancel, iterator, vars
<1> QED
  BY <1>1, <1>2, Invariance, PTL DEF Spec, BrokenListingsFail

-----------------------------------------------------------------------------
(* Why a call ends: each of its steps is the last, or leaves fewer pages to *)
(* fetch, or as many pages and fewer items to return, or as many of both   *)
(* and fewer attempts.  (A page may have any number of items, so that no   *)
(* number bounds all steps from the start.)                                *)
PagesLeft == MaxPages - pages
TriesLeft == 2 * (call.limit - retries) + (IF status = "pausing" THEN 1 ELSE 0)

CallsProgress ==
  [][/\ Proceed /\ canceled => Ended'
     /\ Proceed /\ call.limit >= 0 =>
          \/ Ended'
          \/ PagesLeft' < PagesLeft
          \/ PagesLeft' = PagesLeft /\ buffer' < buffer
          \/ PagesLeft' = PagesLeft /\ buffer' = buffer /\ TriesLeft' < TriesLeft]_vars

LEMMA TryAgainUsesUp ==
  ASSUME TypeOK, TryAgain, status = "trying", call' = call, call.limit >= 0
  PROVE  Ended' \/ TriesLeft' < TriesLeft
BY Types DEF TryAgain, TriesLeft, Ended

(* A canceled context ends a call at its next step, and limited retries    *)
(* end it after finitely many, although FindProjects takes a new backoff   *)
(* with every item (newBackoff, FindProjects, ListWorkerPools): what       *)
(* EveryCallEnds rests on.                                                 *)
THEOREM CallsMakeProgress ==
  Spec => /\ CallsProgress
          /\ [](PagesLeft \in Nat /\ buffer \in Nat
                /\ (call.limit >= 0 => TriesLeft \in Nat))
<1> DEFINE Lower == \/ Ended'
                    \/ PagesLeft' < PagesLeft
                    \/ PagesLeft' = PagesLeft /\ buffer' < buffer
                    \/ PagesLeft' = PagesLeft /\ buffer' = buffer /\ TriesLeft' < TriesLeft
<1>1. IInv => /\ PagesLeft \in Nat /\ buffer \in Nat
              /\ call.limit >= 0 => TriesLeft \in Nat
  BY Types, Bounds DEF IInv, TypeOK, RequestInv, PagesLeft, TriesLeft
<1>2. ASSUME IInv, Proceed, canceled PROVE Ended'
  BY <1>2 DEF Proceed, Request, NextBuffered, NextPage, NextFails, NextFailsAgain, Done,
              Resume, GiveUp, CanSend, Ended
<1>3. ASSUME IInv, Proceed, call.limit >= 0 PROVE Lower
  <2>0. TypeOK
    BY <1>3 DEF IInv
  <2>1. CASE Request
    BY <1>3, <2>0, <2>1, TryAgainUsesUp
       DEF Request, CanSend, Ended, PagesLeft, iterator
  <2>2. CASE NextBuffered
    BY <2>0, <2>2 DEF NextBuffered, PagesLeft, TypeOK
  <2>3. CASE NextPage
    BY <2>0, <2>3, Types, Bounds DEF NextPage, PagesLeft
  <2>4. CASE NextFails \/ NextFailsAgain
    BY <1>3, <2>0, <2>4, TryAgainUsesUp
       DEF NextFails, NextFailsAgain, CanSend, PagesLeft, iterator
  <2>5. CASE Done \/ GiveUp
    BY <2>5 DEF Done, GiveUp, Ended
  <2>6. CASE Resume
    BY <1>3, <2>0, <2>6, Types DEF Resume, PagesLeft, TriesLeft, iterator
  <2> QED BY <1>3, <2>1, <2>2, <2>3, <2>4, <2>5, <2>6 DEF Proceed
<1>4. IInv /\ [Next]_vars =>
        [/\ Proceed /\ canceled => Ended'
         /\ Proceed /\ call.limit >= 0 => Lower]_vars
  BY <1>2, <1>3
<1> QED BY <1>1, <1>4, Invariance, PTL DEF Spec, CallsProgress
=============================================================================
