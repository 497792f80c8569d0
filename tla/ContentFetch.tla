---------------------------- MODULE ContentFetch ----------------------------
(***************************************************************************)
(* The fetcher that reads the pages of topic sources (packages/research,   *)
(* fetcher.ts): one deadline for all redirects and the body, every hop     *)
(* checked before it is connected to, every response closed.  Hosts,       *)
(* addresses and texts are left out: a check passes or does not.           *)
(***************************************************************************)
EXTENDS Integers

CONSTANTS
    Sources,       \* the sources, each of which reads one page at a time
    MaxRedirects   \* OPENBLOG_FETCH_MAX_REDIRECTS

ASSUME FetchAssumption == MaxRedirects \in Nat

VARIABLE fetches

FetchCodes == {"fetch_blocked", "fetch_network", "fetch_timeout", "fetch_http_error",
               "fetch_too_large", "fetch_unsupported_type"}

(* open counts the responses that were neither read to the end nor         *)
(* destroyed; the result is what the caller gets.                          *)
FetchStates ==
    [phase : {"idle", "check", "request", "answered", "body", "over"}, hop : 0..MaxRedirects,
     expired : BOOLEAN, open : Nat, result : FetchCodes \cup {"none", "ok"}]

NoFetch == [phase |-> "idle", hop |-> 0, expired |-> FALSE, open |-> 0, result |-> "none"]

FetchTypeOK == fetches \in [Sources -> FetchStates]

FetchInit == fetches = [s \in Sources |-> NoFetch]

-----------------------------------------------------------------------------
Fetching == [NoFetch EXCEPT !.phase = "check"]

Turns(s, fetch) == fetches' = [fetches EXCEPT ![s] = fetch]

Over(fetch, result) == [fetch EXCEPT !.phase = "over", !.result = result, !.expired = FALSE, !.hop = 0]

Destroyed(fetch) == [fetch EXCEPT !.open = @ - 1]

(* What an error that is none of the fetcher's own is reported as.         *)
ErrorCode(fetch) == IF fetch.expired THEN "fetch_timeout" ELSE "fetch_network"

(* Slip: the timer is stopped when the headers have come.                  *)
DeadlineOfHeaders(s) ==
    /\ fetches[s].phase \in {"check", "request"}
    /\ ~fetches[s].expired
    /\ Turns(s, [fetches[s] EXCEPT !.expired = TRUE])

(* The timer, as long as the fetch is not over.                            *)
Deadline(s) ==
    /\ fetches[s].phase \notin {"idle", "over"}
    /\ ~fetches[s].expired
    /\ Turns(s, [fetches[s] EXCEPT !.expired = TRUE])

(* The URL, its host and its addresses.  The look-up of a name is not      *)
(* stopped by the deadline.                                                *)
Check(s) ==
    /\ fetches[s].phase = "check"
    /\ \/ Turns(s, [fetches[s] EXCEPT !.phase = "request"])
       \/ \E code \in {"fetch_blocked", "fetch_network"} : Turns(s, Over(fetches[s], code))

RequestFails(s) ==
    /\ fetches[s].phase = "request"
    /\ Turns(s, Over(fetches[s], ErrorCode(fetches[s])))

RequestAnswered(s) ==
    /\ fetches[s].phase = "request"
    /\ ~fetches[s].expired
    /\ Turns(s, [fetches[s] EXCEPT !.phase = "answered", !.open = @ + 1])

(* Slip: the response that redirects is left as it is.                     *)
RedirectedOpen(fetch) == [fetch EXCEPT !.phase = "check", !.hop = @ + 1]

Redirected(fetch) == [Destroyed(fetch) EXCEPT !.phase = "check", !.hop = @ + 1]

(* Slip: one redirect more.                                                *)
RedirectOnceMore(s) ==
    /\ fetches[s].phase = "answered"
    /\ fetches[s].hop <= MaxRedirects
    /\ Turns(s, Redirected(fetches[s]))

Redirect(s) ==
    /\ fetches[s].phase = "answered"
    /\ fetches[s].hop < MaxRedirects
    /\ Turns(s, Redirected(fetches[s]))

(* One redirect too many or one that leads nowhere, a status, a type, an   *)
(* encoding or a length that is not taken.                                 *)
Unacceptable(s) ==
    /\ fetches[s].phase = "answered"
    /\ \E code \in {"fetch_http_error", "fetch_unsupported_type", "fetch_too_large",
                      "fetch_blocked", ErrorCode(fetches[s])} :
         Turns(s, Over(Destroyed(fetches[s]), code))

Accept(s) ==
    /\ fetches[s].phase = "answered"
    /\ Turns(s, [fetches[s] EXCEPT !.phase = "body"])

(* The whole body may be there when the deadline comes.                    *)
BodyRead(s) ==
    /\ fetches[s].phase = "body"
    /\ Turns(s, Over(Destroyed(fetches[s]), "ok"))

BodyFails(s) ==
    /\ fetches[s].phase = "body"
    /\ \E code \in {"fetch_too_large", ErrorCode(fetches[s])} :
         Turns(s, Over(Destroyed(fetches[s]), code))

FetchStep(s) ==
    \/ Check(s)
    \/ RequestFails(s) \/ RequestAnswered(s)
    \/ Redirect(s) \/ Unacceptable(s) \/ Accept(s)
    \/ BodyRead(s) \/ BodyFails(s)

(* What goes on even if the server never answers: names are looked up, a   *)
(* response that has come is dealt with, what the deadline has aborted     *)
(* fails.                                                                  *)
FetchGoesOn(s) ==
    \/ Check(s)
    \/ fetches[s].expired /\ (RequestFails(s) \/ BodyFails(s))
    \/ Redirect(s) \/ Unacceptable(s) \/ Accept(s)

-----------------------------------------------------------------------------
(* A fetch never has two responses open, and none when it waits for the    *)
(* next one or is over, on any of its ways out (follow).                   *)
ResponsesClosed ==
    \A s \in Sources :
        fetches[s].open = IF fetches[s].phase \in {"answered", "body"} THEN 1 ELSE 0
=============================================================================
