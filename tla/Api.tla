--------------------------------- MODULE Api ---------------------------------
(***************************************************************************)
(* What Api hands to the tasks for every answer of the server, or none.    *)
(* A body is the set of the properties that hold some text; one that is    *)
(* not a JSON object has none.  An optional value is a set of at most one. *)
(***************************************************************************)
EXTENDS Integers

Contents == {"activationToken", "accessToken", "idToken", "version", "url"}

\* Code 0 is what remains when there is no connection within its timeout.
Responses == [statusCode : {0, 200, 201, 302, 422, 500}, body : SUBSET Contents]

\* postJSON(): Api::Result without the text for the error message; parsed is
\* what parseOkPayload makes of the body.
PostJSON(response, parsed) ==
    [statusCode |-> response.statusCode,
     okPayload |-> IF response.statusCode \in 200..299 THEN parsed ELSE {}]

ParseStartAuthResponse(body) == body \cap {"activationToken"}

ParseAuthResponse(body) ==
    IF "accessToken" \notin body THEN {}
    ELSE {[idToken |-> "idToken" \in body,
           appUpdate |-> {"version", "url"} \subseteq body]}

\* Each request by the results it may have.
StartAuth ==
    {PostJSON(response, ParseStartAuthResponse(response.body)) : response \in Responses}
RequestAccess ==
    {PostJSON(response, ParseAuthResponse(response.body)) : response \in Responses}

\* The server puts an identity token into every payload it completes an
\* activation with; no code asks for it.
CompleteAuth ==
    {PostJSON(response, ParseAuthResponse(response.body)) :
        response \in {r \in Responses : "accessToken" \in r.body => "idToken" \in r.body}}

\* The test of the tasks: one of these codes, and a payload.
Accepted(result, codes) == result.statusCode \in codes /\ result.okPayload # {}
=============================================================================
