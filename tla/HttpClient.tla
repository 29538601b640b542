---------------------------- MODULE HttpClient -----------------------------
(***************************************************************************)
(* meta-id/httpclient.c: HTTP requests of the ESP itself.  Each has its    *)
(* own request_args and espconn, which the callbacks free; the user's      *)
(* callback gets the outcome.  A response comes in segments, which are     *)
(* gathered in a buffer of at most BUFFER_SIZE_MAX.                        *)
(*                                                                         *)
(* Sizes count segments.  A response is represented by the numbers of its  *)
(* segments; Hole is a buffer whose first character was overwritten by 0.  *)
(***************************************************************************)
EXTENDS Espconn, SequencesExt

CONSTANTS
    Requests,        \* the requests made
    BUFFER_SIZE_MAX, \* segments that fit into the buffer
    Segments,        \* segments of the longest response
    MaxFailures      \* bound on failed allocations, lookups and connections

HttpClientAssumption ==
    BUFFER_SIZE_MAX \in Nat \ {0} /\ Segments \in Nat /\ MaxFailures \in Nat

VARIABLES
    req,      \* the request_args of each request
    link,     \* its connection
    server,   \* what the server has sent of its response, and its end
    outcome,  \* history: the calls of user_callback for each request
    failures  \* how many failures there have been

vars == <<req, link, server, outcome, failures>>

Hole == 0
Failed == [http_status |-> -1, body |-> <<>>]
Unborn == [phase |-> "none", buffer |-> <<>>, headers |-> FALSE, post_data |-> <<>>]
Headers(r) == <<[of |-> r, part |-> "headers"]>>
Content(r) == <<[of |-> r, part |-> "content"]>>
Wanted(r, post) == IF post THEN Headers(r) \o Content(r) ELSE Headers(r)

-----------------------------------------------------------------------------
(* Callbacks of the connection of r *)

Report(r, result) == outcome' = [outcome EXCEPT ![r] = Append(@, result)]
Release(r) == req' = [req EXCEPT ![r].phase = "freed", ![r].buffer = <<>>]

\* A failure, counted against the bound.
Fail == failures < MaxFailures /\ failures' = failures + 1

\* dns_callback: an address at once or later starts the connection, and
\* anything else ends the request.
Resolved(r) ==
    /\ req' = [req EXCEPT ![r].phase = "connect"]
    /\ link' = [link EXCEPT ![r] = espconn_connect(@)]
    /\ UNCHANGED outcome
Unresolved(r) ==
    /\ Release(r)
    /\ Report(r, Failed)
    /\ UNCHANGED link

\* The body handed over is what follows the headers in the buffer, of which
\* the first segment here stands for.
Result(buffer) ==
    IF buffer # <<>> /\ Head(buffer) = 1
    THEN [http_status |-> 200, body |-> buffer] ELSE Failed

disconnect_callback(r) ==
    /\ Report(r, Result(req[r].buffer))
    /\ Release(r)
    /\ link' = [link EXCEPT ![r] = Idle]

connect_callback(r) ==
    /\ link' = [link EXCEPT ![r] = espconn_sent(Opened(@), Headers(r))]
    /\ req' = [req EXCEPT ![r].headers = FALSE]

\* mutant: the contents of a POST are never sent
sent_callback_headers(r) ==
    /\ link' = [link EXCEPT ![r] = Acknowledged(@)]
    /\ UNCHANGED req
sent_callback(r) ==
    LET l == Acknowledged(link[r])
    IN  /\ link' = [link EXCEPT ![r] =
                      IF req[r].post_data = <<>> THEN l ELSE espconn_sent(l, req[r].post_data)]
        /\ req' = [req EXCEPT ![r].post_data = <<>>]

\* What came after a buffer whose beginning was discarded stays discarded,
\* unless that buffer was empty: then it is a beginning of its own.
Appended(buffer, segment) == Append(buffer, segment)
DiscardedNot(buffer) == buffer \* mutant: what there is of it is kept
Discarded(buffer) == IF buffer = <<>> THEN <<>> ELSE <<Hole>> \o Tail(buffer)

TooLong(r) == Len(req[r].buffer) + 1 > BUFFER_SIZE_MAX

receive_callback(r, segment, allocated) ==
    IF TooLong(r) \/ ~allocated
    THEN /\ req' = [req EXCEPT ![r].buffer = Discarded(@)]
         /\ link' = [link EXCEPT ![r] = espconn_disconnect(@)]
    ELSE /\ req' = [req EXCEPT ![r].buffer = Appended(@, segment)]
         /\ UNCHANGED link

-----------------------------------------------------------------------------
(* Actions *)

\* http_get, http_post: an answer of the lookup may come at once.
http_raw_request(r, post) ==
    /\ req[r].phase = "none"
    /\ LET new == [Unborn EXCEPT !.phase = "lookup", !.headers = TRUE,
                                 !.post_data = IF post THEN Content(r) ELSE <<>>]
       IN  \/ /\ req' = [req EXCEPT ![r] = new] \* ESPCONN_INPROGRESS
              /\ UNCHANGED <<link, outcome, failures>>
           \/ /\ req' = [req EXCEPT ![r] = [new EXCEPT !.phase = "connect"]] \* ESPCONN_OK
              /\ link' = [link EXCEPT ![r] = espconn_connect(@)]
              /\ UNCHANGED <<outcome, failures>>
           \/ /\ Fail /\ req' = [req EXCEPT ![r] = [new EXCEPT !.phase = "freed"]]
              /\ Report(r, Failed)
              /\ UNCHANGED link
    /\ \E n \in 1..Segments : server' = [server EXCEPT ![r] = [sent |-> 0, of |-> n, post |-> post]]

dns_callback(r) ==
    /\ req[r].phase = "lookup"
    /\ \/ Resolved(r) /\ UNCHANGED failures
       \/ Unresolved(r) /\ Fail
    /\ UNCHANGED server

Connected(r) ==
    /\ Connecting(link[r])
    /\ connect_callback(r)
    /\ UNCHANGED <<server, outcome, failures>>

Sent(r) ==
    /\ Live(link[r]) /\ link[r].unsent > 0
    /\ sent_callback(r)
    /\ UNCHANGED <<server, outcome, failures>>

\* The server answers a request it has received.
Received(r) ==
    /\ Live(link[r])
    /\ link[r].out = Wanted(r, server[r].post)
    /\ server[r].sent < server[r].of
    /\ server' = [server EXCEPT ![r].sent = @ + 1]
    /\ \/ receive_callback(r, server[r].sent + 1, TRUE) /\ UNCHANGED failures
       \/ receive_callback(r, server[r].sent + 1, FALSE) /\ Fail
    /\ UNCHANGED outcome

\* The connection is closed: by the server, which has sent everything, or at
\* the client's wish.
Disconnected(r) ==
    /\ \/ link[r].st = "closing"
       \/ Up(link[r]) /\ link[r].unsent = 0 /\ server[r].sent = server[r].of
    /\ disconnect_callback(r)
    /\ UNCHANGED <<server, failures>>

\* error_callback: refused while connecting, or reset.
Lost(r) ==
    /\ Fail
    /\ link[r].st \in {"connecting", "up", "closing"}
    /\ disconnect_callback(r)
    /\ UNCHANGED server

Init ==
    /\ req = [r \in Requests |-> Unborn]
    /\ link = [r \in Requests |-> Idle]
    /\ server = [r \in Requests |-> [sent |-> 0, of |-> 0, post |-> FALSE]]
    /\ outcome = [r \in Requests |-> <<>>]
    /\ failures = 0

Progress(r) == dns_callback(r) \/ Connected(r) \/ Sent(r) \/ Received(r) \/ Disconnected(r)
Next == \E r \in Requests : (\E post \in BOOLEAN : http_raw_request(r, post)) \/ Progress(r) \/ Lost(r)

Spec == Init /\ [][Next]_vars

\* Lookups and connections come to an end, and the server answers what it got
\* and closes the connection, as it is asked to: the client has no timeout.
FairSpec == Spec /\ \A r \in Requests : WF_vars(Progress(r))

-----------------------------------------------------------------------------
(* Properties *)

\* disconnect_callback passes a response on only if receive_callback has
\* gathered all of it, in order: one that does not fit into the buffer, or for
\* which there was no memory at some time, is reported as a failure, never
\* passed on in part, whatever segments still come before the connection is
\* closed.  A connection that is reset (a failure in this step) may cut it.
WholeOrFailed ==
    [][\A r \in Requests :
         outcome'[r] # outcome[r] =>
            LET result == Last(outcome'[r])
                fits == server[r].of <= BUFFER_SIZE_MAX
            IN  /\ failures' = failures /\ result # Failed =>
                        fits /\ result.body = [i \in 1..server[r].of |-> i]
                /\ failures' = 0 /\ fits => result # Failed
                /\ IsPrefix(result.body, [i \in 1..server[r].of |-> i])]_vars

\* Whatever happens to its lookup, its connection or its memory, the user of
\* a request is called back exactly once.
CalledOnce ==
    \A r \in Requests : (req[r].phase # "none") ~> [](Len(outcome[r]) = 1)
=============================================================================
