------------------------------ MODULE Retries ------------------------------
(***************************************************************************)
(* One call of a client of the system (pkg/github, pkg/cloudbuild,         *)
(* pkg/assetinventory), wrapped in go-retry: a single request to GitHub or *)
(* Cloud Build, or a listing that pages through a Google iterator.         *)
(*                                                                         *)
(* newBackoff allows maxRetryAttempts retries, without end when that is    *)
(* negative.  FindProjects takes a new backoff for each resource, while    *)
(* ListWorkerPools shares one among all pools.  The iterator keeps its     *)
(* first error and returns it from then on.                                *)
(***************************************************************************)
EXTENDS Integers

CONSTANTS
  Limits,      \* values of MAX_RETRY_ATTEMPTS
  PageSizes,   \* numbers of items a page may have
  MaxPages,    \* bound on the pages of a listing
  MaxRequests  \* bound on the requests counted when retries have no end

ASSUME Bounds ==
  /\ Limits \subseteq Int
  /\ PageSizes \subseteq Nat /\ PageSizes # {}
  /\ MaxPages \in Nat \ {0} /\ MaxRequests \in Nat

VARIABLES
  call,      \* which call is made, and MAX_RETRY_ATTEMPTS
  status,    \* "trying", "pausing", "succeeded" or "failed"
  retries,   \* what WithMaxRetries has counted
  canceled,  \* whether the context is canceled
  requests,  \* requests sent for the result that is awaited
  answer,    \* how the last request was answered
  broken,    \* the iterator holds an error
  buffer,    \* its items that were not returned yet
  fetched,   \* its items so far
  pages,     \* its pages so far
  more,      \* whether there is another page
  result     \* the items collected

iterator == <<broken, buffer, fetched, pages, more>>
vars     == <<call, status, retries, canceled, requests, answer, iterator, result>>

Single == {"GenerateJITConfig", "CreateBuild"}
Paged  == {"FindProjects", "ListWorkerPools"}

Answers == {"none", "ok", "unreadable", "clientError", "otherError"}

Ended == status \in {"succeeded", "failed"}

Init ==
  /\ call \in [name: Single \cup Paged, limit: Limits]
  /\ status = "trying"
  /\ retries = 0
  /\ canceled \in BOOLEAN
  /\ requests = 0
  /\ answer = "none"
  /\ broken = FALSE /\ buffer = 0 /\ fetched = 0 /\ pages = 0 /\ more = TRUE
  /\ result = 0

(* go-retry looks at the context before it calls, and the request fails if *)
(* it is canceled meanwhile.                                               *)
CanSend == status = "trying" /\ ~canceled

Sent == requests' = IF requests < MaxRequests THEN requests + 1 ELSE requests

(* Mutant of TryAgain: an attempt more. *)
TryAgain_OneMore ==
  \/ /\ call.limit < 0 \/ retries <= call.limit
     /\ status' = "pausing"
     /\ retries' = IF call.limit < 0 THEN retries ELSE retries + 1
  \/ /\ call.limit >= 0 /\ retries > call.limit
     /\ status' = "failed"
     /\ UNCHANGED retries

(* Mutant of TryAgain: the retries are not counted. *)
TryAgain_Forgets ==
  \/ call.limit # 0 /\ status' = "pausing" /\ UNCHANGED retries
  \/ call.limit = 0 /\ status' = "failed" /\ UNCHANGED retries

(* A retryable error: pause while the backoff has retries left. *)
TryAgain ==
  \/ /\ call.limit < 0 \/ retries < call.limit
     /\ status' = "pausing"
     /\ retries' = IF call.limit < 0 THEN retries ELSE retries + 1
  \/ /\ call.limit >= 0 /\ retries >= call.limit
     /\ status' = "failed"
     /\ UNCHANGED retries

(* The request of a single call, and every way it is answered.  go-github  *)
(* returns an error for each answer that is not a success, so the code     *)
(* that tells client errors from others is not reached.                    *)
Request ==
  /\ call.name \in Single /\ CanSend
  /\ Sent
  /\ \/ /\ answer' = "ok"
        /\ status' = "succeeded"
        /\ result' = 1
        /\ UNCHANGED retries
     \/ /\ answer' \in {"clientError", "otherError"}
        /\ TryAgain
        /\ UNCHANGED result
     \/ /\ call.name = "CreateBuild" /\ answer' = "unreadable"
        /\ status' = "failed"
        /\ UNCHANGED <<retries, result>>
  /\ UNCHANGED <<call, canceled, iterator>>

-----------------------------------------------------------------------------
(* it.Next() *)

(* An item goes to the caller, who asks for the next one. *)
Return ==
  /\ result' = result + 1
  /\ retries' = IF call.name = "FindProjects" THEN 0 ELSE retries
  /\ requests' = 0

(* Mutant of NextBuffered: the last item of a page is passed over. *)
NextBuffered_DropsLast ==
  /\ call.name \in Paged /\ CanSend
  /\ ~broken /\ buffer > 0
  /\ buffer' = IF buffer = 2 THEN 0 ELSE buffer - 1
  /\ Return
  /\ UNCHANGED <<call, status, canceled, answer, broken, fetched, pages, more>>

(* Mutant of NextBuffered: one item more than there are. *)
NextBuffered_OneMore ==
  /\ call.name \in Paged /\ CanSend
  /\ ~broken /\ buffer >= 0
  /\ buffer' = buffer - 1
  /\ Return
  /\ UNCHANGED <<call, status, canceled, answer, broken, fetched, pages, more>>

NextBuffered ==
  /\ call.name \in Paged /\ CanSend
  /\ ~broken /\ buffer > 0
  /\ buffer' = buffer - 1
  /\ Return
  /\ UNCHANGED <<call, status, canceled, answer, broken, fetched, pages, more>>

(* The next page is requested.  A page may have no items. *)
NextPage ==
  /\ call.name \in Paged /\ CanSend
  /\ ~broken /\ buffer = 0 /\ more
  /\ \E n \in PageSizes : buffer' = n /\ fetched' = fetched + n
  /\ more' \in (IF pages + 1 < MaxPages THEN BOOLEAN ELSE {FALSE})
  /\ pages' = pages + 1
  /\ answer' = "ok"
  /\ Sent
  /\ UNCHANGED <<call, status, retries, canceled, broken, result>>

NextFails ==
  /\ call.name \in Paged /\ CanSend
  /\ ~broken /\ buffer = 0 /\ more
  /\ broken' = TRUE
  /\ answer' \in {"clientError", "otherError"}
  /\ Sent
  /\ TryAgain
  /\ UNCHANGED <<call, canceled, buffer, fetched, pages, more, result>>

(* Mutant of NextFailsAgain: a retry finds the iterator at its end. *)
NextFailsAgain_IsDone ==
  /\ call.name \in Paged /\ CanSend
  /\ broken
  /\ status' = "succeeded"
  /\ UNCHANGED <<call, retries, canceled, requests, answer, iterator, result>>

(* The error of an earlier attempt is returned, and nothing is sent. *)
NextFailsAgain ==
  /\ call.name \in Paged /\ CanSend
  /\ broken
  /\ TryAgain
  /\ UNCHANGED <<call, canceled, requests, answer, iterator, result>>

(* iterator.Done *)
Done ==
  /\ call.name \in Paged /\ CanSend
  /\ ~broken /\ buffer = 0 /\ ~more
  /\ status' = "succeeded"
  /\ UNCHANGED <<call, retries, canceled, requests, answer, iterator, result>>

-----------------------------------------------------------------------------
(* The delay of the backoff is over. *)
Resume ==
  /\ status = "pausing" /\ ~canceled
  /\ status' = "trying"
  /\ UNCHANGED <<call, retries, canceled, requests, answer, iterator, result>>

(* go-retry returns the error of the context, and so, in the end, does an  *)
(* attempt that is under way.                                              *)
GiveUp ==
  /\ ~Ended /\ canceled
  /\ status' = "failed"
  /\ UNCHANGED <<call, retries, canceled, requests, answer, iterator, result>>

Cancel ==
  /\ ~Ended /\ ~canceled
  /\ canceled' = TRUE
  /\ UNCHANGED <<call, status, retries, requests, answer, iterator, result>>

Proceed ==
  \/ Request
  \/ NextBuffered \/ NextPage \/ NextFails \/ NextFailsAgain \/ Done
  \/ Resume \/ GiveUp

Next == Proceed \/ Cancel

Spec == Init /\ [][Next]_vars

(* Requests are answered or time out, and delays come to an end. *)
FairSpec == Spec /\ WF_vars(Proceed)

-----------------------------------------------------------------------------
TypeOK ==
  /\ call \in [name: Single \cup Paged, limit: Limits]
  /\ status \in {"trying", "pausing", "succeeded", "failed"}
  /\ retries \in Nat /\ requests \in 0 .. MaxRequests
  /\ canceled \in BOOLEAN /\ broken \in BOOLEAN /\ more \in BOOLEAN
  /\ answer \in Answers
  /\ buffer \in Nat /\ fetched \in Nat /\ pages \in 0 .. MaxPages /\ result \in Nat

(* A listing that succeeds has every item of every page once: no error on  *)
(* the way, retried or not, makes it return a part.                        *)
ListingsAreWhole ==
  call.name \in Paged /\ status = "succeeded" => result = fetched /\ ~more

(* One result costs at most one request and MAX_RETRY_ATTEMPTS retries of  *)
(* it; on a listing, where a page may be empty, one for every page more.   *)
RequestsAreBounded ==
  call.limit >= 0 => requests <= call.limit + 1 + pages

(* MAX_RETRY_ATTEMPTS, "the maximum number of attempts for network calls,  *)
(* including the initial attempt".                                         *)
AttemptsIncludeTheFirst ==
  call.name \in Single /\ call.limit >= 1 => requests <= call.limit

(* "Other 4xx errors are not retryable.  Propagate immediately."           *)
ClientErrorsAreFinal ==
  [][call.name = "GenerateJITConfig" /\ answer = "clientError" => ~Request]_vars

(* A page that could not be fetched dooms its listing, whatever retries    *)
(* are left and however short the outage was.                              *)
BrokenListingsFail == [](broken => [](status # "succeeded"))

(* Every call ends when its retries are limited or its context canceled.   *)
EveryCallEnds == (call.limit >= 0 \/ <>canceled) => <>Ended
=============================================================================
