------------------------------ MODULE SessionReceipt ------------------------------
(***************************************************************************)
(* The receipt in the session side panel of the desktop application: an    *)
(* effect asks the server for the handoff evidence of the session on       *)
(* screen and again whenever the list of changes beside it changes. That   *)
(* list is the working tree's by default and the one summaries write into  *)
(* the last user message if the user asks for the turn's changes. The      *)
(* server reads the messages and then the stored diffs while the agent     *)
(* goes on working and summaries are stored.                               *)
(***************************************************************************)
EXTENDS SessionSummary

CONSTANTS
    None,          \* no session on screen, no receipt, no request
    Modes,         \* the lists on offer: "git" and "branch" of the working tree, "turn"
    Trees,         \* lists of changes a query of the working tree may return
    MaxDropped     \* bound: cancelled requests in flight at once

(* Diffs read from the working tree because none are stored. *)
Live == -1

(* A request, by what the server has read for it, and a receipt. *)
Jobs == [stage : {"asked", "messages", "rewriting", "ready"},
         session : Sessions, messages : Versions, diffs : Versions]
Receipts == [session : Sessions, messages : Versions, diffs : Versions \cup {Live}]

ASSUME ReceiptAssumption ==
    /\ MaxDropped \in Nat
    /\ "turn" \in Modes /\ Modes \subseteq {"git", "branch", "turn"} /\ Trees # {}
    /\ None \notin Sessions /\ None \notin Jobs /\ None \notin Receipts

VARIABLES
    route,      \* the session on screen
    changes,    \* which list of changes is beside the receipt
    tree,       \* the list of the working tree, while it is beside the receipt
    wanted,     \* the request whose answer is wanted: how far the server is with it
    dropped,    \* cancelled requests, with which the server goes on
    fetch,      \* what became of the last question
    since,      \* what there was when it asked: versions of the messages and of the turn's list
    evidence    \* the receipt on screen

panelVars == <<route, changes, tree, wanted, dropped, fetch, since, evidence>>
vars == <<summaryVars, panelVars>>

NotAsked == [messages |-> 0, listed |-> 0]

(* A project without git has no changes but those of the turn. *)
Preferred == IF "git" \in Modes THEN "git" ELSE "turn"
ShownIn(m) == IF m = "turn" THEN {None} ELSE Trees

TurnFiles == IF route = None THEN FilesOf[0] ELSE FilesOf[listed[route]]
ListBeside == IF changes = "turn" THEN TurnFiles ELSE tree

Init ==
    /\ SummaryInit
    /\ route = None /\ changes = Preferred /\ tree \in ShownIn(Preferred)
    /\ wanted = None /\ dropped = {}
    /\ fetch = "none" /\ since = NotAsked
    /\ evidence = None

-----------------------------------------------------------------------------
(* The panel                                                                 *)

(* The effect runs: its clean-up cancels the request before, whose answer is *)
(* from now on dropped. The receipt on screen stays.                         *)
Cancel ==
    IF wanted = None
    THEN UNCHANGED dropped
    ELSE /\ Cardinality(dropped) < MaxDropped
         /\ dropped' = dropped \cup {wanted}

Refetch(s) ==
    /\ Cancel
    /\ IF s = None
       THEN wanted' = None /\ fetch' = "none" /\ since' = NotAsked
       ELSE /\ wanted' = [stage |-> "asked", session |-> s, messages |-> 0, diffs |-> 0]
            /\ fetch' = "pending"
            /\ since' = [messages |-> messages'[s],
                         listed |-> IF changes' = "turn" THEN listed'[s] ELSE 0]
    /\ UNCHANGED evidence

Navigate(s) ==
    /\ s # route
    /\ UNCHANGED summaryVars
    /\ route' = s /\ changes' = Preferred /\ tree' \in ShownIn(Preferred)
    /\ Refetch(s)

(* The user selects another list, or the one selected is no longer on offer. *)
SelectChanges(m) ==
    /\ m # changes
    /\ UNCHANGED <<summaryVars, route>>
    /\ changes' = m /\ tree' \in ShownIn(m)
    /\ Refetch(route)

(* The agent or anybody else edits files, the query is repeated for a file   *)
(* watcher or because the session became idle, or it failed: nothing that    *)
(* the server stores has to do with it.                                      *)
TreeChanges(l) ==
    /\ changes # "turn" /\ l # tree
    /\ UNCHANGED <<summaryVars, route, changes>>
    /\ tree' = l
    /\ Refetch(route)

ListOnScreenChanges == route # None /\ changes = "turn" /\ TurnFiles' # TurnFiles

(* Sessions with a request between reading the diffs and storing them again. *)
Rewriting == {r.session : r \in {q \in dropped \cup ({wanted} \ {None}) : q.stage = "rewriting"}}

(* The agent works; the effect follows the turn's files if they are on screen. *)
Work ==
    /\ SummaryStep(Rewriting)
    /\ UNCHANGED <<route, changes, tree>>
    /\ IF ListOnScreenChanges
       THEN Refetch(route)
       ELSE UNCHANGED <<wanted, dropped, fetch, since, evidence>>

(* Without stored changes the evidence is made of the state of the working tree. *)
\* Mutant: without stored changes the evidence names none.
HashedStoredOnly(version) == IF version \in EmptyDiffs THEN None ELSE version
Hashed(version) == IF version \in EmptyDiffs THEN Live ELSE version

Show(r) ==
    /\ evidence' = [session |-> r.session, messages |-> r.messages, diffs |-> Hashed(r.diffs)]
    /\ fetch' = "answered"

\* Mutant: the flag of the clean-up is shared by all runs, and every answer is dropped.
AnswerNothing ==
    /\ wanted # None /\ wanted.stage = "ready"
    /\ wanted' = None
    /\ UNCHANGED <<summaryVars, route, changes, tree, dropped, fetch, since, evidence>>
Answer ==
    /\ wanted # None /\ wanted.stage = "ready"
    /\ wanted' = None
    /\ Show(wanted)
    /\ UNCHANGED <<summaryVars, route, changes, tree, dropped, since>>

\* Mutant: the answer to a cancelled request is shown too.
ShowCancelled(r) == IF fetch = "none" THEN UNCHANGED <<evidence, fetch>> ELSE Show(r)
IgnoreCancelled(r) == UNCHANGED <<evidence, fetch>>

AnswerDropped(r) ==
    /\ r.stage = "ready"
    /\ dropped' = dropped \ {r}
    /\ IgnoreCancelled(r)
    /\ UNCHANGED <<summaryVars, route, changes, tree, wanted, since>>

(* An error is only logged, and nothing asks again. *)
Fail ==
    /\ wanted # None
    /\ wanted' = None /\ fetch' = "failed"
    /\ UNCHANGED <<summaryVars, route, changes, tree, dropped, since, evidence>>

FailDropped(r) ==
    /\ dropped' = dropped \ {r}
    /\ UNCHANGED <<summaryVars, route, changes, tree, wanted, fetch, since, evidence>>
-----------------------------------------------------------------------------
(* The server: one step with a request                                       *)

(* Names git quoted are unquoted, and what was read is then stored again. *)
NeedsRewrite(d) == d.quoted

Served(r) ==
    LET read == stored[r.session] IN
    CASE r.stage = "asked"     -> [r EXCEPT !.stage = "messages", !.messages = messages[r.session]]
      [] r.stage = "messages"  -> [r EXCEPT !.stage = IF NeedsRewrite(read) THEN "rewriting" ELSE "ready",
                                            !.diffs = read.of]
      [] r.stage = "rewriting" -> [r EXCEPT !.stage = "ready"]

(* The read and the write are two operations of the storage, and a failed write is ignored. *)
StoreAgain(r) ==
    \/ UNCHANGED stored
    \/ /\ r.stage = "rewriting"
       /\ stored' = [stored EXCEPT ![r.session] = [of |-> r.diffs, quoted |-> FALSE]]

Serve ==
    /\ wanted # None /\ wanted.stage # "ready"
    /\ wanted' = Served(wanted)
    /\ StoreAgain(wanted)
    /\ UNCHANGED <<messages, listed, forks, settled, route, changes, tree, dropped, fetch, since, evidence>>

ServeDropped(r) ==
    /\ r.stage # "ready"
    /\ dropped' = (dropped \ {r}) \cup {Served(r)}
    /\ StoreAgain(r)
    /\ UNCHANGED <<messages, listed, forks, settled, route, changes, tree, wanted, fetch, since, evidence>>

Next ==
    \/ Work
    \/ \E s \in Sessions \cup {None} : Navigate(s)
    \/ \E m \in Modes : SelectChanges(m)
    \/ \E l \in Trees : TreeChanges(l)
    \/ Serve \/ Answer \/ Fail
    \/ \E r \in dropped : ServeDropped(r) \/ AnswerDropped(r) \/ FailDropped(r)

(* The server works at the request wanted and answers it. The agent, the     *)
(* user, the forks and cancelled requests owe nothing.                       *)
Fairness == WF_vars(Serve \/ Answer)

Spec == Init /\ [][Next]_vars /\ Fairness
-----------------------------------------------------------------------------
(* Properties                                                                *)


(* Types of the panel and of the server's diffs. *)
TypeOK ==
    /\ SummaryTypeOK
    /\ route \in Sessions \cup {None} /\ changes \in Modes /\ tree \in ShownIn(changes)
    /\ wanted \in {None} \cup Jobs /\ dropped \subseteq Jobs
    /\ fetch \in {"none", "pending", "answered", "failed"}
    /\ since \in [messages : Versions, listed : Versions]
    /\ evidence \in {None} \cup Receipts

(* Once the last question is answered the receipt is the one of the session  *)
(* on screen and contains every message there was when the panel asked,      *)
(* whatever answers to earlier questions are still under way.                *)
ReceiptFollowsRoute ==
    fetch = "answered" => evidence.session = route /\ evidence.messages >= since.messages

(* Beside the changes of the turn, the receipt is one asked for the files    *)
(* listed there, and it hashes changes at least as late as they are, unless  *)
(* summaries of the session overlapped, a write failed unnoticed, or one     *)
(* came between a request's reading of the diffs and its storing them again. *)
(* It rests on diffs being stored before they are listed and on the effect   *)
(* following the list. Beside the working tree, the default, nothing relates *)
(* the two: that list is of the tree, the receipt hashes what is stored.     *)
ReceiptHashesListedFiles ==
    fetch = "answered" /\ changes = "turn"
       => /\ FilesOf[since.listed] = TurnFiles
          /\ settled[route] => evidence.diffs = Live \/ evidence.diffs >= since.listed

(* The receipt of a session never goes back to an earlier state of it. *)
ReceiptNeverGoesBack ==
    [][evidence # None /\ evidence'.session = evidence.session
          => evidence'.messages >= evidence.messages]_evidence

(* Once the user stays and the list beside the receipt stops changing, the   *)
(* question is answered or fails: cancelled requests and their answers,      *)
(* overlapping summaries and other sessions do not keep it waiting. Without  *)
(* that premise it is false, for every change of the list supersedes the     *)
(* question before.                                                          *)
ListStopsChanging ==
    <>[][route' = route /\ changes' = changes /\ ListBeside' = ListBeside]_vars
QuestionIsSettled == ListStopsChanging => <>[](fetch # "pending")

(* The panel is one in which the latest question wins. *)
Latest == INSTANCE LatestRequestWins WITH
    question <- IF route = None THEN None ELSE [session |-> route, since |-> since.messages],
    status <- fetch, shown <- evidence
ImplementsLatestRequestWins == Latest!Spec
===============================================================================
