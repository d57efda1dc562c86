---------------------------- MODULE LatestRequestWins ----------------------------
(***************************************************************************)
(* What the session side panel promises about the receipt it shows: it     *)
(* asks for the handoff evidence of the session on screen, asks again when *)
(* the session or its changed files change, and shows an answer only to    *)
(* the question asked last. While it waits, and when a question fails, the *)
(* receipt shown before stays.                                             *)
(***************************************************************************)
EXTENDS Integers

CONSTANTS
    Sessions,     \* session identifiers
    None,         \* no session, and no receipt
    Versions      \* versions of a session's messages

VARIABLES
    question,     \* the session asked about and the version it had then
    status,       \* what became of the question
    shown         \* the receipt on screen

latestVars == <<question, status, shown>>

Questions == [session : Sessions, since : Versions]

Init == question = None /\ status = "none" /\ shown = None

(* A session left and found again has not gone back in the meantime. *)
Ask ==
    /\ \E q \in Questions :
          /\ shown # None /\ shown.session = q.session => shown.messages <= q.since
          /\ question' = q
    /\ status' = "pending"
    /\ UNCHANGED shown

Leave == question' = None /\ status' = "none" /\ UNCHANGED shown

Answer ==
    /\ status = "pending"
    /\ shown' # None
    /\ shown'.session = question.session
    /\ shown'.messages >= question.since
    /\ status' = "answered"
    /\ UNCHANGED question

Fail == status = "pending" /\ status' = "failed" /\ UNCHANGED <<question, shown>>

Next == Ask \/ Leave \/ Answer \/ Fail

Spec == Init /\ [][Next]_latestVars
===============================================================================
