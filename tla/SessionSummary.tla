------------------------------ MODULE SessionSummary ------------------------------
(***************************************************************************)
(* The changes a session made, as the server keeps them. After a step of   *)
(* the agent the server forks a computation that reads all messages, diffs *)
(* the snapshots they name, stores the diffs and then writes the list of   *)
(* changed files into the user message of its turn, where the application  *)
(* sees it while that message is the last. Nobody waits for a fork and     *)
(* nothing orders two of them.                                             *)
(*                                                                         *)
(* Messages and diffs are versions: the number of changes the message list *)
(* has seen, and the version of the messages a diff was computed from.     *)
(***************************************************************************)
EXTENDS Integers, FiniteSets

CONSTANTS
    Sessions,      \* session identifiers
    Before,        \* the version a session has when the panel is first shown
    MaxChanges,    \* bound: the versions of a session's messages
    Changes,       \* bound: the last version a session reaches
    MaxForks,      \* bound: computations in flight at once
    FilesOf,       \* the list of files changed in the turn, per version; 0 names no turn
    EmptyDiffs,    \* versions that leave no file changed
    QuotedNames    \* sessions and versions that change files whose names git quotes

Versions == 0 .. MaxChanges

ASSUME SummaryAssumption ==
    /\ MaxChanges \in Nat /\ MaxForks \in Nat
    /\ Before \in [Sessions -> Versions] /\ Changes \in [Sessions -> Versions]
    /\ DOMAIN FilesOf = Versions
    /\ QuotedNames \subseteq Sessions \X Versions
    /\ EmptyDiffs \subseteq Versions /\ 0 \in EmptyDiffs

VARIABLES
    messages,   \* version of the messages of a session
    stored,     \* its stored diffs: computed from which version, names quoted or not
    listed,     \* version of the file list in its last user message, 0 for none
    forks,      \* the computations in flight
    settled     \* history: diffs were only stored by computations that ran alone

summaryVars == <<messages, stored, listed, forks, settled>>

InFlight(s) == {f \in forks : f.session = s}

Diffs(s, version) == [of |-> version, quoted |-> <<s, version>> \in QuotedNames]

SummaryInit ==
    /\ messages = Before /\ listed = Before
    /\ stored = [s \in Sessions |-> Diffs(s, Before[s])]
    /\ forks = {}
    /\ settled = [s \in Sessions |-> TRUE]

(* A part or a message is added or updated. *)
ChangeMessages(s) ==
    /\ messages[s] < Changes[s]
    /\ messages' = [messages EXCEPT ![s] = @ + 1]
    /\ UNCHANGED <<stored, listed, forks, settled>>

(* The user sends a message. It has no list of files yet, and what runs for  *)
(* the messages before it lists files the application no longer shows.       *)
NewTurn(s) ==
    /\ messages[s] < Changes[s]
    /\ messages' = [messages EXCEPT ![s] = @ + 1]
    /\ listed' = [listed EXCEPT ![s] = 0]
    /\ forks' = {IF f.session = s THEN [f EXCEPT !.current = FALSE] ELSE f : f \in forks}
    /\ UNCHANGED <<stored, settled>>

(* A step finishes, or a turn starts: the messages change and a computation  *)
(* is forked for the user message of the step, which need not be the last    *)
(* any more if the session had others. It begins by reading all messages.    *)
(* A fork that has not begun changes nothing and is not told from one that   *)
(* is not yet made.                                                          *)
ForkSummary(s, current) ==
    /\ Cardinality(forks) < MaxForks
    /\ messages[s] < Changes[s]
    /\ messages' = [messages EXCEPT ![s] = @ + 1]
    /\ current \/ messages[s] # 0
    /\ forks' = forks \cup {[stage |-> "computed", session |-> s, read |-> messages[s] + 1,
                            current |-> current]}
    /\ settled' = [settled EXCEPT ![s] = @ /\ InFlight(s) = {}]
    /\ UNCHANGED <<stored, listed>>

(* A write that fails is ignored. The sessions in rewriting have a request   *)
(* that has read the diffs and is about to store them again.                 *)
StoreDiffs(f, rewriting) ==
    /\ f.stage = "computed"
    /\ \/ /\ stored' = [stored EXCEPT ![f.session] = Diffs(f.session, f.read)]
          /\ settled' = [settled EXCEPT ![f.session] = @ /\ f.session \notin rewriting]
       \/ /\ UNCHANGED stored
          /\ settled' = [settled EXCEPT ![f.session] = FALSE]
    /\ forks' = (forks \ {f}) \cup {[f EXCEPT !.stage = "stored"]}
    /\ UNCHANGED <<messages, listed>>

\* Mutant: the files are listed before the diffs are stored.
ListFilesFirst(f) ==
    /\ f.stage = "computed" /\ f.current
    /\ listed' = [listed EXCEPT ![f.session] = f.read]
    /\ UNCHANGED <<messages, stored, forks, settled>>
ListFiles(f) ==
    /\ f.stage = "stored"
    /\ listed' = IF f.current THEN [listed EXCEPT ![f.session] = f.read] ELSE listed
    /\ forks' = forks \ {f}
    /\ UNCHANGED <<messages, stored, settled>>

(* An error ends the computation and nobody hears of it; so does a user message that is gone. *)
AbandonSummary(f) ==
    /\ forks' = forks \ {f}
    /\ UNCHANGED <<messages, stored, listed, settled>>

SummaryStep(rewriting) ==
    \/ \E s \in Sessions :
          ChangeMessages(s) \/ NewTurn(s) \/ \E current \in BOOLEAN : ForkSummary(s, current)
    \/ \E f \in forks : StoreDiffs(f, rewriting) \/ ListFiles(f) \/ AbandonSummary(f)
-----------------------------------------------------------------------------
SummaryTypeOK ==
    /\ messages \in [Sessions -> Versions] /\ listed \in [Sessions -> Versions]
    /\ stored \in [Sessions -> [of : Versions, quoted : BOOLEAN]]
    /\ forks \subseteq [stage : {"computed", "stored"}, session : Sessions, read : Versions,
                        current : BOOLEAN]
    /\ settled \in [Sessions -> BOOLEAN]
===============================================================================
