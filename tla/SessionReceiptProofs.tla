--------------------------- MODULE SessionReceiptProofs ---------------------------
(***************************************************************************)
(* The receipt of the side panel, for any number of sessions, versions,    *)
(* forked summaries and cancelled requests, and any list beside it. The    *)
(* argument has two halves. The server's: what is stored for a settled     *)
(* session only grows. The panel's: the wanted request belongs to the      *)
(* session on screen and was asked for the list beside the receipt, and no *)
(* receipt is ahead of the messages of its session. The halves meet in     *)
(* Grows, what the panel relies on of a step of the server.                *)
(***************************************************************************)
EXTENDS SessionReceipt, TLAPS

Behind ==
    /\ \A s \in Sessions : stored[s].of <= messages[s] /\ listed[s] <= messages[s]
    /\ \A f \in forks : f.read <= messages[f.session]
OneFork == \A s \in Sessions : settled[s] =>
              \A f, g \in forks : f.session = s /\ g.session = s => f = g
Ordered == \A s \in Sessions : settled[s] =>
              /\ listed[s] <= stored[s].of
              /\ \A f \in forks : f.session = s =>
                    /\ f.stage = "stored" => f.read <= stored[s].of
                    /\ f.stage = "computed" => stored[s].of <= f.read

ServerInv == SummaryTypeOK /\ Behind /\ OneFork /\ Ordered

(* A session stays settled only by a step that lets its stored diffs grow,   *)
(* and that leaves them as they are while a request stores them again.       *)
Grows ==
    /\ \A s \in Sessions : messages[s] <= messages'[s]
    /\ \A s \in Sessions : settled'[s] =>
          /\ settled[s] /\ stored[s].of <= stored'[s].of
          /\ s \in Rewriting => stored'[s].of = stored[s].of

JobOK(r) ==
    /\ r \in Jobs
    /\ r.messages <= messages[r.session] /\ r.diffs <= messages[r.session]
    /\ r.stage = "rewriting" /\ settled[r.session] => r.diffs = stored[r.session].of

LEMMA ServerInit == ASSUME SummaryInit PROVE ServerInv
<1>1. \A s \in Sessions : /\ Diffs(s, Before[s]) \in [of : Versions, quoted : BOOLEAN]
                          /\ Diffs(s, Before[s]).of = Before[s]
  BY SummaryAssumption DEF Diffs
<1>2. SummaryTypeOK
  BY <1>1, SummaryAssumption DEF SummaryInit, SummaryTypeOK
<1>3. \A s \in Sessions : /\ stored[s] = Diffs(s, Before[s]) /\ Before[s] \in Int
                          /\ messages[s] = Before[s] /\ listed[s] = Before[s]
  BY SummaryAssumption DEF SummaryInit, Versions
<1>4. \A s \in Sessions : stored[s].of = Before[s]
  BY <1>1, <1>3
<1>5. forks = {}
  BY DEF SummaryInit
<1>6. Behind /\ OneFork /\ Ordered
  BY <1>3, <1>4, <1>5 DEF Behind, OneFork, Ordered
<1>. QED BY <1>2, <1>6 DEF ServerInv

LEMMA ChangeMessagesServer ==
    ASSUME ServerInv, NEW s \in Sessions, ChangeMessages(s) PROVE ServerInv' /\ Grows
<1>0. messages[s] + 1 \in Versions
  <2>1. messages[s] \in 0 .. MaxChanges /\ Changes[s] \in 0 .. MaxChanges /\ MaxChanges \in Nat
    BY SummaryAssumption DEF ServerInv, SummaryTypeOK, Versions
  <2>. QED BY <2>1 DEF ChangeMessages, Versions
<1>1. messages' \in [Sessions -> Versions] /\ \A t \in Sessions : messages[t] <= messages'[t]
  BY <1>0 DEF ServerInv, SummaryTypeOK, ChangeMessages, Versions
<1>2. UNCHANGED <<stored, listed, forks, settled>>
  BY DEF ChangeMessages
<1>3. SummaryTypeOK' /\ Behind'
  BY <1>1, <1>2 DEF ServerInv, SummaryTypeOK, Behind, Versions
<1>. QED
  BY <1>1, <1>2, <1>3 DEF ServerInv, SummaryTypeOK, OneFork, Ordered, Grows, Versions

LEMMA NewTurnServer ==
    ASSUME ServerInv, NEW s \in Sessions, NewTurn(s) PROVE ServerInv' /\ Grows
<1>. DEFINE late(f) == IF f.session = s THEN [f EXCEPT !.current = FALSE] ELSE f
<1>0. messages[s] + 1 \in Versions /\ 0 \in Versions
  <2>1. messages[s] \in 0 .. MaxChanges /\ Changes[s] \in 0 .. MaxChanges /\ MaxChanges \in Nat
    BY SummaryAssumption DEF ServerInv, SummaryTypeOK, Versions
  <2>. QED BY <2>1 DEF NewTurn, Versions
<1>1. /\ messages' = [messages EXCEPT ![s] = @ + 1] /\ listed' = [listed EXCEPT ![s] = 0]
      /\ forks' = {late(f) : f \in forks} /\ UNCHANGED <<stored, settled>>
  BY DEF NewTurn
<1>2. \A f \in forks : /\ late(f) \in [stage : {"computed", "stored"}, session : Sessions,
                                        read : Versions, current : BOOLEAN]
                       /\ late(f).stage = f.stage /\ late(f).session = f.session
                       /\ late(f).read = f.read
  BY DEF ServerInv, SummaryTypeOK
<1>. HIDE DEF late
<1>3. messages' \in [Sessions -> Versions] /\ \A t \in Sessions : messages[t] <= messages'[t]
  BY <1>0, <1>1 DEF ServerInv, SummaryTypeOK, Versions
<1>4. SummaryTypeOK'
  BY <1>0, <1>1, <1>2, <1>3 DEF ServerInv, SummaryTypeOK
<1>5. \A t \in Sessions : listed'[t] <= messages'[t] /\ (settled[t] => listed'[t] <= stored[t].of)
  BY <1>0, <1>1, <1>3 DEF ServerInv, SummaryTypeOK, Behind, Ordered, Versions
<1>6. Behind'
  BY <1>1, <1>2, <1>3, <1>5 DEF ServerInv, SummaryTypeOK, Behind, Versions
<1>7. OneFork' /\ Ordered'
  BY <1>1, <1>2, <1>5 DEF ServerInv, OneFork, Ordered
<1>8. Grows
  BY <1>1, <1>3 DEF ServerInv, SummaryTypeOK, Grows, Versions
<1>. QED BY <1>4, <1>6, <1>7, <1>8 DEF ServerInv

LEMMA ForkSummaryServer ==
    ASSUME ServerInv, NEW s \in Sessions, NEW current \in BOOLEAN, ForkSummary(s, current)
    PROVE  ServerInv' /\ Grows
<1>. DEFINE new == [stage |-> "computed", session |-> s, read |-> messages[s] + 1,
                    current |-> current]
<1>1. /\ messages' = [messages EXCEPT ![s] = @ + 1] /\ messages[s] < Changes[s]
      /\ forks' = forks \cup {new}
      /\ settled' = [settled EXCEPT ![s] = @ /\ InFlight(s) = {}]
      /\ UNCHANGED <<stored, listed>>
  BY DEF ForkSummary
<1>0. messages[s] + 1 \in Versions
  <2>1. messages[s] \in 0 .. MaxChanges /\ Changes[s] \in 0 .. MaxChanges /\ MaxChanges \in Nat
    BY SummaryAssumption DEF ServerInv, SummaryTypeOK, Versions
  <2>. QED BY <1>1, <2>1 DEF Versions
<1>2. messages' \in [Sessions -> Versions] /\ messages'[s] = messages[s] + 1
      /\ \A t \in Sessions : messages[t] <= messages'[t]
  BY <1>0, <1>1 DEF ServerInv, SummaryTypeOK, Versions
<1>3. new \in [stage : {"computed", "stored"}, session : Sessions, read : Versions, current : BOOLEAN]
  BY <1>1, <1>2 DEF SummaryTypeOK
<1>4. settled' \in [Sessions -> BOOLEAN]
  BY <1>1 DEF ServerInv, SummaryTypeOK
<1>5. SummaryTypeOK'
  BY <1>1, <1>2, <1>3, <1>4 DEF ServerInv, SummaryTypeOK
<1>6. Behind'
  BY <1>1, <1>2 DEF ServerInv, SummaryTypeOK, Behind, Versions
<1>7. \A t \in Sessions : settled'[t] => settled[t]
  BY <1>1 DEF ServerInv, SummaryTypeOK
<1>8. settled'[s] => \A f \in forks : f.session # s
  BY <1>1 DEF ServerInv, SummaryTypeOK, InFlight
<1>9. OneFork'
  BY <1>1, <1>7, <1>8 DEF ServerInv, OneFork
<1>10. Ordered'
  BY <1>1, <1>7 DEF ServerInv, SummaryTypeOK, Behind, Ordered, Versions
<1>11. Grows
  BY <1>1, <1>2, <1>7 DEF ServerInv, SummaryTypeOK, Grows, Versions
<1>. QED BY <1>5, <1>6, <1>9, <1>10, <1>11 DEF ServerInv

LEMMA StoreDiffsServer ==
    ASSUME ServerInv, NEW f \in forks, StoreDiffs(f, Rewriting) PROVE ServerInv' /\ Grows
<1>. DEFINE done == [f EXCEPT !.stage = "stored"]
<1>1. f.stage = "computed" /\ forks' = (forks \ {f}) \cup {done} /\ UNCHANGED <<messages, listed>>
  BY DEF StoreDiffs
<1>2. /\ f \in [stage : {"computed", "stored"}, session : Sessions, read : Versions, current : BOOLEAN]
      /\ done \in [stage : {"computed", "stored"}, session : Sessions, read : Versions, current : BOOLEAN]
      /\ done.stage = "stored" /\ done.session = f.session /\ done.read = f.read
  BY DEF ServerInv, SummaryTypeOK
<1>3. Diffs(f.session, f.read) \in [of : Versions, quoted : BOOLEAN]
      /\ Diffs(f.session, f.read).of = f.read
  BY <1>2 DEF Diffs
<1>. HIDE DEF done
<1>4. CASE /\ stored' = [stored EXCEPT ![f.session] = Diffs(f.session, f.read)]
           /\ settled' = [settled EXCEPT ![f.session] = @ /\ f.session \notin Rewriting]
  <2>0. \A t \in Sessions : settled'[t] => settled[t] /\ (t = f.session => t \notin Rewriting)
    BY <1>2, <1>4 DEF ServerInv, SummaryTypeOK
  <2>1. SummaryTypeOK'
    BY <1>1, <1>2, <1>3, <1>4 DEF ServerInv, SummaryTypeOK
  <2>2. Behind'
    BY <1>1, <1>2, <1>3, <1>4 DEF ServerInv, SummaryTypeOK, Behind
  <2>3. OneFork'
    BY <1>1, <1>2, <2>0 DEF ServerInv, OneFork
  <2>4. \A t \in Sessions : t # f.session => stored'[t] = stored[t]
    BY <1>2, <1>4 DEF ServerInv, SummaryTypeOK
  <2>5. stored'[f.session].of = f.read
    BY <1>2, <1>3, <1>4 DEF ServerInv, SummaryTypeOK
  <2>6. settled[f.session] => stored[f.session].of <= f.read /\ listed[f.session] <= f.read
    BY <1>1, <1>2 DEF ServerInv, SummaryTypeOK, Ordered, Versions
  <2>7. Grows
    <3>. SUFFICES ASSUME NEW t \in Sessions, settled'[t]
                  PROVE  /\ settled[t] /\ stored[t].of <= stored'[t].of
                         /\ t \in Rewriting => stored'[t].of = stored[t].of
      BY <1>1 DEF Grows, ServerInv, SummaryTypeOK, Versions
    <3>. QED BY <2>0, <2>4, <2>5, <2>6 DEF ServerInv, SummaryTypeOK, Versions
  <2>8. Ordered'
    <3>. SUFFICES ASSUME NEW t \in Sessions, settled[t]
                  PROVE  /\ listed[t] <= stored'[t].of
                         /\ \A g \in forks' : g.session = t =>
                               /\ g.stage = "stored" => g.read <= stored'[t].of
                               /\ g.stage = "computed" => stored'[t].of <= g.read
      BY <1>1, <2>0 DEF Ordered
    <3>1. CASE t = f.session
      <4>1. \A g \in forks' : g.session = t => g = done
        BY <1>1, <1>2, <3>1 DEF ServerInv, OneFork
      <4>. QED BY <4>1, <1>2, <2>5, <2>6, <3>1 DEF Versions
    <3>2. CASE t # f.session
      BY <1>1, <1>2, <2>4, <3>2 DEF ServerInv, Ordered
    <3>. QED BY <3>1, <3>2
  <2>. QED BY <2>1, <2>2, <2>3, <2>7, <2>8 DEF ServerInv
<1>5. CASE UNCHANGED stored /\ settled' = [settled EXCEPT ![f.session] = FALSE]
  <2>1. \A t \in Sessions : settled'[t] => settled[t] /\ t # f.session
    BY <1>2, <1>5 DEF ServerInv, SummaryTypeOK
  <2>2. SummaryTypeOK'
    BY <1>1, <1>2, <1>5 DEF ServerInv, SummaryTypeOK
  <2>3. Behind' /\ OneFork'
    BY <1>1, <1>2, <1>5, <2>1 DEF ServerInv, Behind, OneFork
  <2>4. Ordered'
    BY <1>1, <1>2, <1>5, <2>1 DEF ServerInv, Ordered
  <2>5. Grows
    BY <1>1, <1>5, <2>1 DEF ServerInv, SummaryTypeOK, Grows, Versions
  <2>. QED BY <2>2, <2>3, <2>4, <2>5 DEF ServerInv
<1>. QED BY <1>4, <1>5 DEF StoreDiffs

LEMMA ListFilesServer ==
    ASSUME ServerInv, NEW f \in forks, ListFiles(f) PROVE ServerInv' /\ Grows
BY SummaryAssumption DEF ServerInv, SummaryTypeOK, Behind, OneFork, Ordered, ListFiles,
   Grows, Versions

LEMMA AbandonSummaryServer ==
    ASSUME ServerInv, NEW f \in forks, AbandonSummary(f) PROVE ServerInv' /\ Grows
BY SummaryAssumption DEF ServerInv, SummaryTypeOK, Behind, OneFork, Ordered, AbandonSummary,
   Grows, Versions

LEMMA SummaryStepServer == ASSUME ServerInv, SummaryStep(Rewriting) PROVE ServerInv' /\ Grows
BY ChangeMessagesServer, NewTurnServer, ForkSummaryServer, StoreDiffsServer, ListFilesServer, AbandonSummaryServer
   DEF SummaryStep

(* Storing the diffs of a request again changes nothing in a settled session *)
(* but how names are written.                                                *)
LEMMA StoreAgainServer ==
    ASSUME ServerInv, NEW r, JobOK(r), StoreAgain(r), UNCHANGED <<messages, listed, forks, settled>>
    PROVE  ServerInv' /\ Grows
<1>1. r.session \in Sessions /\ r.diffs \in Versions /\ r.diffs <= messages[r.session]
  BY DEF JobOK, Jobs
<1>. DEFINE again == [of |-> r.diffs, quoted |-> FALSE]
<1>2. again \in [of : Versions, quoted : BOOLEAN] /\ again.of = r.diffs
  BY <1>1
<1>3. \/ stored' = stored
      \/ r.stage = "rewriting" /\ stored' = [stored EXCEPT ![r.session] = again]
  BY DEF StoreAgain
<1>. HIDE DEF again
<1>4. stored' \in [Sessions -> [of : Versions, quoted : BOOLEAN]]
  BY <1>1, <1>2, <1>3 DEF ServerInv, SummaryTypeOK
<1>5. \A s \in Sessions : settled[s] => stored'[s].of = stored[s].of
  BY <1>1, <1>2, <1>3 DEF ServerInv, SummaryTypeOK, JobOK
<1>6. \A s \in Sessions : stored'[s].of <= messages[s]
  BY <1>1, <1>2, <1>3 DEF ServerInv, SummaryTypeOK, Behind
<1>7. SummaryTypeOK' /\ Behind' /\ OneFork'
  BY <1>4, <1>6 DEF ServerInv, SummaryTypeOK, Behind, OneFork
<1>8. Ordered'
  BY <1>5 DEF ServerInv, Ordered
<1>9. Grows
  BY <1>5 DEF ServerInv, SummaryTypeOK, Grows, Versions
<1>. QED BY <1>7, <1>8, <1>9 DEF ServerInv

LEMMA UnchangedServer == ASSUME ServerInv, UNCHANGED summaryVars PROVE ServerInv' /\ Grows
BY DEF ServerInv, SummaryTypeOK, Behind, OneFork, Ordered, summaryVars, Grows, Versions
-----------------------------------------------------------------------------
(* The panel's half.                                                         *)

JobsOK ==
    /\ \A r \in dropped : JobOK(r)
    /\ wanted # None => JobOK(wanted)

(* The question belongs to the session on screen, is pending while its       *)
(* request is wanted, and was asked of messages that still are there.        *)
QuestionOK ==
    /\ route # None <=> fetch # "none"
    /\ wanted # None <=> fetch = "pending"
    /\ wanted # None => wanted.session = route
    /\ route # None => since.messages <= messages[route]
    /\ route # None /\ settled[route] => since.listed <= stored[route].of
    /\ changes = "turn" => FilesOf[since.listed] = TurnFiles

(* What the server has read of the wanted request is as late as the question. *)
JobIsFresh ==
    wanted # None =>
       /\ wanted.stage # "asked" => since.messages <= wanted.messages
       /\ wanted.stage \in {"rewriting", "ready"} /\ settled[route] => since.listed <= wanted.diffs

EvidenceOK ==
    /\ evidence # None => evidence.messages <= messages[evidence.session]
    /\ fetch = "answered" => evidence # None
    /\ fetch = "answered" /\ settled[route] => evidence.diffs = Live \/ evidence.diffs >= since.listed
    /\ wanted # None /\ evidence # None /\ evidence.session = route =>
          evidence.messages <= since.messages

PanelTypeOK ==
    /\ route \in Sessions \cup {None} /\ changes \in Modes /\ tree \in ShownIn(changes)
    /\ wanted \in {None} \cup Jobs /\ dropped \subseteq Jobs
    /\ fetch \in {"none", "pending", "answered", "failed"}
    /\ since \in [messages : Versions, listed : Versions]
    /\ evidence \in {None} \cup Receipts

PanelInv ==
    /\ PanelTypeOK /\ JobsOK /\ QuestionOK /\ JobIsFresh /\ EvidenceOK
    /\ ReceiptFollowsRoute

Inv == ServerInv /\ PanelInv

(* A job only falls behind the messages of its session, and what it is about *)
(* to store again stays what is stored.                                      *)
LEMMA JobMonotone ==
    ASSUME ServerInv, Grows, ServerInv', NEW r, JobOK(r), r \in dropped \/ (wanted # None /\ r = wanted)
    PROVE  JobOK(r)'
<1>1. r.stage = "rewriting" => r.session \in Rewriting
  BY ReceiptAssumption DEF Rewriting, JobOK
<1>2. r \in Jobs /\ r.session \in Sessions /\ r.messages \in Versions /\ r.diffs \in Versions
  BY DEF JobOK, Jobs
<1>. QED BY <1>1, <1>2 DEF JobOK, Grows, ServerInv, SummaryTypeOK, Versions

LEMMA PanelInit == ASSUME Init PROVE Inv
<1>1. NotAsked \in [messages : Versions, listed : Versions]
  BY SummaryAssumption DEF NotAsked, Versions
<1>2. Preferred \in Modes
  BY ReceiptAssumption DEF Preferred
<1>3. QuestionOK
  BY DEF Init, QuestionOK, NotAsked, TurnFiles
<1>4. PanelInv
  BY <1>1, <1>2, <1>3, ReceiptAssumption DEF Init, PanelInv, PanelTypeOK, JobsOK, JobIsFresh, EvidenceOK,
     ReceiptFollowsRoute
<1>. QED BY <1>4, ServerInit DEF Init, Inv

(* A step of the server that leaves the panel alone.                         *)
LEMMA ServerMoves ==
    ASSUME Inv, ServerInv', Grows, UNCHANGED panelVars, changes = "turn" => UNCHANGED TurnFiles
    PROVE  PanelInv'
<1>1. PanelTypeOK'
  BY DEF Inv, PanelInv, PanelTypeOK, panelVars
<1>2. JobsOK'
  BY JobMonotone DEF Inv, PanelInv, JobsOK, panelVars
<1>3. QuestionOK'
  BY DEF Inv, PanelInv, PanelTypeOK, QuestionOK, panelVars, Grows, ServerInv, SummaryTypeOK, Versions
<1>4. JobIsFresh'
  BY DEF Inv, PanelInv, PanelTypeOK, QuestionOK, JobIsFresh, panelVars, Grows
<1>5. EvidenceOK'
  BY DEF Inv, PanelInv, PanelTypeOK, QuestionOK, EvidenceOK, Receipts, panelVars, Grows, ServerInv,
     SummaryTypeOK, Versions
<1>6. ReceiptFollowsRoute'
  BY DEF Inv, PanelInv, PanelTypeOK, QuestionOK, ReceiptFollowsRoute,
     panelVars, Grows
<1>. QED BY <1>1, <1>2, <1>3, <1>4, <1>5, <1>6 DEF PanelInv

(* The effect asks for session s, after a step of the server or of the user. *)
LEMMA RefetchInv ==
    ASSUME Inv, ServerInv', Grows, NEW s \in Sessions \cup {None}, route' = s, Refetch(s),
           changes' \in Modes, tree' \in ShownIn(changes)'
    PROVE  PanelInv'
<1>1. dropped' = dropped \/ (wanted # None /\ dropped' = dropped \cup {wanted})
  BY DEF Refetch, Cancel
<1>2. UNCHANGED evidence
  BY DEF Refetch
<1>3. \A r \in dropped' : JobOK(r)'
  BY <1>1, JobMonotone DEF Inv, PanelInv, JobsOK
<1>4. evidence # None => evidence.messages <= messages'[evidence.session]
  BY DEF Inv, PanelInv, PanelTypeOK, EvidenceOK, Receipts, Grows, ServerInv, SummaryTypeOK, Versions
<1>5. CASE s = None
  <2>1. wanted' = None /\ fetch' = "none" /\ since' = NotAsked
    BY <1>5 DEF Refetch
  <2>2. NotAsked \in [messages : Versions, listed : Versions]
    BY SummaryAssumption DEF NotAsked, Versions
  <2>3. PanelTypeOK'
    BY <1>1, <1>2, <2>1, <2>2 DEF Inv, PanelInv, PanelTypeOK
  <2>4. QuestionOK'
    BY <1>5, <2>1 DEF QuestionOK, NotAsked, TurnFiles
  <2>. QED
    BY <1>2, <1>3, <1>4, <1>5, <2>1, <2>3, <2>4 DEF PanelInv, JobsOK, JobIsFresh, EvidenceOK,
       ReceiptFollowsRoute
<1>6. CASE s # None
  <2>. DEFINE new == [stage |-> "asked", session |-> s, messages |-> 0, diffs |-> 0]
              asked == [messages |-> messages'[s],
                        listed |-> IF changes' = "turn" THEN listed'[s] ELSE 0]
  <2>1. wanted' = new /\ fetch' = "pending" /\ since' = asked
    BY <1>6 DEF Refetch
  <2>2. s \in Sessions /\ messages'[s] \in Versions /\ listed'[s] \in Versions /\ 0 \in Versions
        /\ stored'[s].of \in Versions
    BY <1>6, SummaryAssumption DEF ServerInv, SummaryTypeOK, Versions
  <2>3. new \in Jobs /\ new.stage = "asked" /\ new.session = s /\ new.messages = 0 /\ new.diffs = 0
    BY <2>2 DEF Jobs
  <2>4. asked \in [messages : Versions, listed : Versions]
        /\ asked.messages = messages'[s]
        /\ asked.listed = IF changes' = "turn" THEN listed'[s] ELSE 0
    BY <2>2
  <2>. HIDE DEF new, asked
  <2>5. wanted' # None
    BY <2>1, <2>3, ReceiptAssumption
  <2>6. PanelTypeOK'
    BY <1>1, <1>2, <2>1, <2>3, <2>4 DEF Inv, PanelInv, PanelTypeOK
  <2>7. JobsOK'
    BY <1>3, <2>1, <2>2, <2>3 DEF JobsOK, JobOK, Versions
  <2>8. QuestionOK'
    BY <1>6, <2>1, <2>2, <2>3, <2>4, <2>5 DEF QuestionOK, TurnFiles, ServerInv, Ordered, Versions
  <2>9. JobIsFresh' /\ ReceiptFollowsRoute'
    BY <2>1, <2>3 DEF JobIsFresh, ReceiptFollowsRoute
  <2>10. EvidenceOK'
    BY <1>2, <1>4, <2>1, <2>4 DEF EvidenceOK
  <2>. QED BY <2>6, <2>7, <2>8, <2>9, <2>10 DEF PanelInv
<1>. QED BY <1>5, <1>6

(* One step of the server with a job keeps the job in order, and what it     *)
(* read is as late as the question if the job is the wanted one.             *)
LEMMA ServedJob ==
    ASSUME ServerInv, NEW r, JobOK(r), r.stage # "ready"
    PROVE  /\ JobOK(Served(r)) /\ Served(r).session = r.session
           /\ Served(r).stage # "asked"
           /\ Served(r).messages = IF r.stage = "asked" THEN messages[r.session] ELSE r.messages
           /\ r.stage = "messages" => Served(r).diffs = stored[r.session].of
           /\ r.stage = "rewriting" => Served(r).diffs = r.diffs
           /\ Served(r).stage # "messages" => r.stage \in {"messages", "rewriting"}
           /\ Served(r).stage = "rewriting" => r.stage = "messages"
<1>. DEFINE read == stored[r.session]
            asked == [r EXCEPT !.stage = "messages", !.messages = messages[r.session]]
            got == [r EXCEPT !.stage = IF NeedsRewrite(read) THEN "rewriting" ELSE "ready",
                             !.diffs = read.of]
            rewritten == [r EXCEPT !.stage = "ready"]
<1>1. r \in Jobs /\ r.session \in Sessions /\ messages[r.session] \in Versions /\ read.of \in Versions
      /\ read.of <= messages[r.session] /\ messages[r.session] <= messages[r.session]
  BY DEF JobOK, Jobs, ServerInv, SummaryTypeOK, Behind, Versions
<1>3. CASE r.stage = "asked"
  <2>1. Served(r) = asked
    BY <1>3 DEF Served
  <2>2. asked \in Jobs /\ asked.stage = "messages" /\ asked.session = r.session
        /\ asked.messages = messages[r.session] /\ asked.diffs = r.diffs
    BY <1>1 DEF Jobs
  <2>. QED BY <1>1, <1>3, <2>1, <2>2 DEF JobOK
<1>4. CASE r.stage = "messages"
  <2>1. Served(r) = got
    BY <1>4 DEF Served
  <2>2. got \in Jobs /\ got.session = r.session /\ got.messages = r.messages /\ got.diffs = read.of
        /\ got.stage \in {"rewriting", "ready"}
    BY <1>1 DEF Jobs
  <2>. QED BY <1>1, <1>4, <2>1, <2>2 DEF JobOK
<1>5. CASE r.stage = "rewriting"
  <2>1. Served(r) = rewritten
    BY <1>5 DEF Served
  <2>2. rewritten \in Jobs /\ rewritten.stage = "ready" /\ rewritten.session = r.session
        /\ rewritten.messages = r.messages /\ rewritten.diffs = r.diffs
    BY <1>1 DEF Jobs
  <2>. QED BY <1>1, <1>5, <2>1, <2>2 DEF JobOK
<1>. QED BY <1>1, <1>3, <1>4, <1>5 DEF Jobs

LEMMA ServeInv == ASSUME Inv, Serve PROVE Inv'
<1>1. wanted # None /\ wanted.stage # "ready" /\ wanted' = Served(wanted) /\ StoreAgain(wanted)
      /\ UNCHANGED <<messages, listed, forks, settled, route, changes, tree, dropped, fetch, since, evidence>>
  BY DEF Serve
<1>2. ServerInv' /\ Grows
  BY <1>1, StoreAgainServer DEF Inv, PanelInv, JobsOK
<1>3. /\ JobOK(wanted') /\ wanted'.session = wanted.session /\ wanted'.stage # "asked"
      /\ wanted'.messages = IF wanted.stage = "asked" THEN messages[wanted.session] ELSE wanted.messages
      /\ wanted.stage = "messages" => wanted'.diffs = stored[wanted.session].of
      /\ wanted.stage = "rewriting" => wanted'.diffs = wanted.diffs
      /\ wanted'.stage # "messages" => wanted.stage \in {"messages", "rewriting"}
      /\ wanted'.stage = "rewriting" => wanted.stage = "messages"
  BY <1>1, ServedJob DEF Inv, PanelInv, JobsOK
<1>4. wanted' \in Jobs /\ wanted' # None
  BY <1>3, ReceiptAssumption DEF JobOK
<1>5. JobOK(wanted)'
  <2>1. wanted'.stage = "rewriting" => UNCHANGED stored
    BY <1>1, <1>3 DEF StoreAgain
  <2>2. wanted'.session \in Sessions
    BY <1>3 DEF JobOK, Jobs
  <2>. QED BY <1>1, <1>3, <2>1, <2>2 DEF JobOK
<1>6. PanelTypeOK' /\ JobsOK'
  BY <1>1, <1>2, <1>4, <1>5, JobMonotone DEF Inv, PanelInv, PanelTypeOK, JobsOK
<1>7. QuestionOK'
  BY <1>1, <1>2, <1>3, <1>4 DEF Inv, PanelInv, PanelTypeOK, QuestionOK, TurnFiles, Grows, ServerInv,
     SummaryTypeOK, Versions
<1>8. JobIsFresh'
  <2>1. route \in Sessions /\ wanted.session = route
    BY <1>1 DEF Inv, PanelInv, PanelTypeOK, QuestionOK, JobsOK, JobOK, Jobs
  <2>2. since.messages <= wanted'.messages
    BY <1>1, <1>3, <2>1 DEF Inv, PanelInv, QuestionOK, JobIsFresh
  <2>3. wanted'.stage \in {"rewriting", "ready"} /\ settled'[route] => since.listed <= wanted'.diffs
    BY <1>1, <1>2, <1>3, <2>1 DEF Inv, PanelInv, QuestionOK, JobIsFresh, Grows
  <2>. QED BY <1>1, <2>2, <2>3 DEF JobIsFresh
<1>9. EvidenceOK' /\ ReceiptFollowsRoute'
  BY <1>1, <1>4 DEF Inv, PanelInv, EvidenceOK, ReceiptFollowsRoute
<1>. QED BY <1>2, <1>6, <1>7, <1>8, <1>9 DEF Inv, PanelInv

LEMMA AnswerInv == ASSUME Inv, Answer PROVE Inv'
<1>. DEFINE new == [session |-> wanted.session, messages |-> wanted.messages, diffs |-> Hashed(wanted.diffs)]
<1>1. wanted # None /\ wanted.stage = "ready" /\ wanted' = None /\ evidence' = new /\ fetch' = "answered"
      /\ UNCHANGED <<summaryVars, route, changes, tree, dropped, since>>
  BY DEF Answer, Show
<1>2. ServerInv' /\ Grows
  BY <1>1, UnchangedServer DEF Inv
<1>3. /\ wanted \in Jobs /\ wanted.session = route /\ route \in Sessions
      /\ since.messages <= wanted.messages /\ wanted.messages <= messages[route]
      /\ settled[route] => since.listed <= wanted.diffs
  BY <1>1 DEF Inv, PanelInv, JobsOK, JobOK, Jobs, QuestionOK, JobIsFresh
<1>4. Hashed(wanted.diffs) \in Versions \cup {Live}
      /\ (Hashed(wanted.diffs) = Live \/ Hashed(wanted.diffs) = wanted.diffs)
  BY <1>3 DEF Hashed, Jobs
<1>5. new \in Receipts /\ new.session = route /\ new.messages = wanted.messages
      /\ new.diffs = Hashed(wanted.diffs)
  BY <1>3, <1>4 DEF Jobs, Receipts
<1>. HIDE DEF new
<1>6. evidence' # None
  BY <1>1, <1>5, ReceiptAssumption
<1>7. PanelTypeOK' /\ JobsOK' /\ JobIsFresh'
  BY <1>1, <1>2, <1>5, JobMonotone DEF Inv, PanelInv, PanelTypeOK, JobsOK, JobIsFresh
<1>8. QuestionOK'
  BY <1>1, <1>3 DEF Inv, PanelInv, QuestionOK, TurnFiles, summaryVars
<1>9. EvidenceOK' /\ ReceiptFollowsRoute'
  BY <1>1, <1>3, <1>4, <1>5, <1>6 DEF EvidenceOK, ReceiptFollowsRoute, summaryVars
<1>. QED BY <1>2, <1>7, <1>8, <1>9 DEF Inv, PanelInv

LEMMA FailInv == ASSUME Inv, Fail PROVE Inv'
<1>1. wanted' = None /\ fetch' = "failed" /\ wanted # None
      /\ UNCHANGED <<summaryVars, route, changes, tree, dropped, since, evidence>>
  BY DEF Fail
<1>2. ServerInv' /\ Grows
  BY <1>1, UnchangedServer DEF Inv
<1>3. PanelTypeOK' /\ JobsOK'
  BY <1>1, <1>2, JobMonotone DEF Inv, PanelInv, PanelTypeOK, JobsOK
<1>4. QuestionOK' /\ JobIsFresh' /\ EvidenceOK'
  BY <1>1 DEF Inv, PanelInv, QuestionOK, TurnFiles, JobIsFresh, EvidenceOK, summaryVars
<1>5. ReceiptFollowsRoute'
  BY <1>1 DEF ReceiptFollowsRoute
<1>. QED BY <1>2, <1>3, <1>4, <1>5 DEF Inv, PanelInv

(* Whatever becomes of a cancelled request, the panel does not notice.       *)
LEMMA DroppedInv ==
    ASSUME Inv, ServerInv', Grows, \A r \in dropped' : JobOK(r)',
           UNCHANGED <<listed, route, changes, tree, wanted, fetch, since, evidence>>
    PROVE  Inv'
<1>1. PanelTypeOK'
  BY DEF Inv, PanelInv, PanelTypeOK, JobOK, ShownIn
<1>2. JobsOK'
  BY JobMonotone DEF Inv, PanelInv, JobsOK
<1>3. QuestionOK'
  BY DEF Inv, PanelInv, PanelTypeOK, QuestionOK, TurnFiles, Grows, ServerInv, SummaryTypeOK, Versions
<1>4. JobIsFresh'
  BY DEF Inv, PanelInv, PanelTypeOK, QuestionOK, JobIsFresh, Grows
<1>5. EvidenceOK'
  BY DEF Inv, PanelInv, PanelTypeOK, QuestionOK, EvidenceOK, Receipts, Grows, ServerInv, SummaryTypeOK, Versions
<1>6. ReceiptFollowsRoute'
  BY DEF Inv, PanelInv, ReceiptFollowsRoute
<1>. QED BY <1>1, <1>2, <1>3, <1>4, <1>5, <1>6 DEF Inv, PanelInv

LEMMA DroppedStepsInv ==
    ASSUME Inv, NEW r \in dropped, ServeDropped(r) \/ AnswerDropped(r) \/ FailDropped(r)
    PROVE  Inv'
<1>1. JobOK(r) /\ \A q \in dropped : JobOK(q)
  BY DEF Inv, PanelInv, JobsOK
<1>2. CASE ServeDropped(r)
  <2>1. r.stage # "ready" /\ dropped' = (dropped \ {r}) \cup {Served(r)} /\ StoreAgain(r)
        /\ UNCHANGED <<messages, listed, forks, settled, route, changes, tree, wanted, fetch, since, evidence>>
    BY <1>2 DEF ServeDropped
  <2>2. ServerInv' /\ Grows
    BY <1>1, <2>1, StoreAgainServer DEF Inv
  <2>3. JobOK(Served(r)) /\ (Served(r).stage = "rewriting" => UNCHANGED stored)
    BY <1>1, <2>1, ServedJob DEF Inv, StoreAgain
  <2>4. JobOK(Served(r)) => Served(r).session \in Sessions
    BY DEF JobOK, Jobs
  <2>5. \A q \in dropped \ {r} : JobOK(q)'
    BY <1>1, <2>2, JobMonotone DEF Inv
  <2>6. ASSUME NEW q, q = Served(r) PROVE JobOK(q)'
    BY <2>1, <2>3, <2>4, <2>6 DEF JobOK
  <2>7. \A q \in dropped' : JobOK(q)'
    BY <2>1, <2>5, <2>6
  <2>. QED BY <2>1, <2>2, <2>7, DroppedInv
<1>3. CASE AnswerDropped(r) \/ FailDropped(r)
  <2>1. dropped' = dropped \ {r} /\ UNCHANGED <<summaryVars, route, changes, tree, wanted, fetch, since, evidence>>
    BY <1>3 DEF AnswerDropped, IgnoreCancelled, FailDropped
  <2>2. ServerInv' /\ Grows
    BY <2>1, UnchangedServer DEF Inv
  <2>3. \A q \in dropped' : JobOK(q)'
    BY <1>1, <2>1, <2>2, JobMonotone DEF Inv
  <2>. QED BY <2>1, <2>2, <2>3, DroppedInv DEF summaryVars
<1>. QED BY <1>2, <1>3

LEMMA WorkInv == ASSUME Inv, Work PROVE Inv' /\ Grows
<1>1. ServerInv' /\ Grows
  BY SummaryStepServer DEF Work, Inv
<1>2. CASE ListOnScreenChanges
  <2>1. /\ route' = route /\ Refetch(route) /\ route \in Sessions \cup {None}
        /\ changes' \in Modes /\ tree' \in ShownIn(changes)'
    BY <1>2 DEF Work, Inv, PanelInv, PanelTypeOK, ShownIn
  <2>. QED BY <1>1, <2>1, RefetchInv DEF Inv
<1>3. CASE ~ListOnScreenChanges
  <2>1. UNCHANGED panelVars
    BY <1>3 DEF Work, panelVars
  <2>2. changes = "turn" => UNCHANGED TurnFiles
    BY <1>3, <2>1 DEF ListOnScreenChanges, TurnFiles, panelVars
  <2>. QED BY <1>1, <2>1, <2>2, ServerMoves DEF Inv
<1>. QED BY <1>2, <1>3

LEMMA NavigateInv ==
    ASSUME Inv, NEW s \in Sessions \cup {None}, Navigate(s) PROVE Inv' /\ Grows
<1>1. ServerInv' /\ Grows
  BY UnchangedServer DEF Navigate, Inv
<1>2. route' = s /\ Refetch(s) /\ changes' \in Modes /\ tree' \in ShownIn(changes)'
  BY ReceiptAssumption DEF Navigate, Preferred, ShownIn
<1>. QED BY <1>1, <1>2, RefetchInv DEF Inv

LEMMA SelectChangesInv ==
    ASSUME Inv, NEW m \in Modes, SelectChanges(m) PROVE Inv' /\ Grows
<1>1. ServerInv' /\ Grows
  BY UnchangedServer DEF SelectChanges, Inv
<1>2. /\ route' = route /\ route \in Sessions \cup {None} /\ Refetch(route)
      /\ changes' \in Modes /\ tree' \in ShownIn(changes)'
  BY DEF SelectChanges, ShownIn, Inv, PanelInv, PanelTypeOK
<1>. QED BY <1>1, <1>2, RefetchInv DEF Inv

LEMMA TreeChangesInv ==
    ASSUME Inv, NEW l \in Trees, TreeChanges(l) PROVE Inv' /\ Grows
<1>1. ServerInv' /\ Grows
  BY UnchangedServer DEF TreeChanges, Inv
<1>2. /\ route' = route /\ route \in Sessions \cup {None} /\ Refetch(route)
      /\ changes' \in Modes /\ tree' \in ShownIn(changes)'
  BY DEF TreeChanges, ShownIn, Inv, PanelInv, PanelTypeOK
<1>. QED BY <1>1, <1>2, RefetchInv DEF Inv

LEMMA StutterInv == ASSUME Inv, UNCHANGED vars PROVE Inv'
<1>1. ServerInv' /\ Grows /\ UNCHANGED panelVars /\ UNCHANGED TurnFiles
  BY UnchangedServer DEF vars, Inv, TurnFiles, summaryVars, panelVars
<1>. QED BY <1>1, ServerMoves DEF Inv

THEOREM ReceiptInvariant == Spec => []Inv
<1>1. Init => Inv
  BY PanelInit
<1>2. Inv /\ [Next]_vars => Inv'
  BY WorkInv, NavigateInv, SelectChangesInv, TreeChangesInv, ServeInv, AnswerInv, FailInv, DroppedStepsInv, StutterInv DEF Next
<1>. QED BY <1>1, <1>2, PTL DEF Spec
-----------------------------------------------------------------------------
(* Consequences.                                                             *)

(* Panel and server keep to their types, whatever order the requests, the    *)
(* forked summaries and the user take.                                       *)
THEOREM ReceiptTypeCorrect == Spec => []TypeOK
<1>1. Inv => TypeOK
  BY DEF Inv, ServerInv, PanelInv, PanelTypeOK, TypeOK
<1>. QED BY <1>1, ReceiptInvariant, PTL

(* An answered question shows the session on screen, as late as it was asked, *)
(* although cancelled requests go on and answer too.                          *)
THEOREM ReceiptIsOfTheRoute == Spec => []ReceiptFollowsRoute
<1>1. Inv => ReceiptFollowsRoute
  BY DEF Inv, PanelInv
<1>. QED BY <1>1, ReceiptInvariant, PTL

(* The receipt beside the changes of the turn is one asked for them, and it   *)
(* hashes changes as late as they are, where the server computes and writes   *)
(* one summary after another and none while diffs are stored again.           *)
THEOREM ReceiptIsNotBehindTheList == Spec => []ReceiptHashesListedFiles
<1>1. Inv => ReceiptHashesListedFiles
  BY DEF Inv, PanelInv, QuestionOK, EvidenceOK, ReceiptHashesListedFiles
<1>. QED BY <1>1, ReceiptInvariant, PTL

(* Only the answer to the wanted request changes the receipt. *)
LEMMA OnlyAnswerShows == ASSUME [Next]_vars, ~Answer PROVE UNCHANGED evidence
BY DEF Next, Work, Navigate, SelectChanges, TreeChanges, Refetch, Serve, Fail, ServeDropped, AnswerDropped, IgnoreCancelled,
   FailDropped, vars, panelVars

LEMMA AnswerShows ==
    ASSUME Inv, Answer
    PROVE  /\ evidence' # None /\ evidence'.session = route /\ evidence'.messages = wanted.messages
           /\ since.messages <= evidence'.messages
           /\ evidence # None /\ evidence.session = route => evidence.messages <= evidence'.messages
<1>. DEFINE new == [session |-> wanted.session, messages |-> wanted.messages, diffs |-> Hashed(wanted.diffs)]
<1>1. wanted # None /\ wanted.stage = "ready" /\ evidence' = new
  BY DEF Answer, Show
<1>2. new.session = wanted.session /\ new.messages = wanted.messages
  OBVIOUS
<1>. HIDE DEF new
<1>3. wanted \in Jobs /\ wanted.session = route /\ since.messages <= wanted.messages
      /\ wanted.messages \in Versions /\ since.messages \in Versions
  BY <1>1 DEF Inv, PanelInv, PanelTypeOK, JobsOK, JobOK, Jobs, QuestionOK, JobIsFresh
<1>4. evidence # None => evidence.messages \in Versions
  BY DEF Inv, PanelInv, PanelTypeOK, Receipts
<1>5. evidence # None /\ evidence.session = route => evidence.messages <= since.messages
  BY <1>1 DEF Inv, PanelInv, EvidenceOK
<1>6. evidence' # None
  BY AnswerInv DEF Inv, PanelInv, EvidenceOK, Answer, Show
<1>. QED BY <1>1, <1>2, <1>3, <1>4, <1>5, <1>6 DEF Versions

(* The receipt of a session never goes back, however often the user leaves   *)
(* the session while a request for it is under way and returns to it.        *)
THEOREM ReceiptOnlyAdvances == Spec => ReceiptNeverGoesBack
<1>. DEFINE Step == evidence # None /\ evidence'.session = evidence.session
                      => evidence'.messages >= evidence.messages
<1>1. ASSUME Inv, [Next]_vars PROVE [Step]_evidence
  <2>1. CASE Answer
    <3>1. evidence # None => evidence.messages \in Versions /\ evidence'.messages \in Versions
      BY <1>1, <2>1, AnswerShows DEF Inv, PanelInv, PanelTypeOK, Receipts, Answer, Jobs
    <3>. QED BY <1>1, <2>1, <3>1, AnswerShows DEF Versions
  <2>2. CASE ~Answer
    BY <1>1, <2>2, OnlyAnswerShows
  <2>. QED BY <2>1, <2>2
<1>. HIDE DEF Step
<1>2. Spec => [][Step]_evidence
  BY <1>1, ReceiptInvariant, PTL DEF Spec
<1>. QED BY <1>2 DEF Step, ReceiptNeverGoesBack

(* Every step of server and panel lets messages, and the stored diffs of an  *)
(* undisturbed session, grow.                                                *)
LEMMA StepsGrow == ASSUME Inv, [Next]_vars PROVE Grows
<1>1. \A r \in dropped : JobOK(r)
  BY DEF Inv, PanelInv, JobsOK
<1>2. wanted # None => JobOK(wanted)
  BY DEF Inv, PanelInv, JobsOK
<1>3. CASE \/ Work \/ \E s \in Sessions \cup {None} : Navigate(s)
           \/ \E m \in Modes : SelectChanges(m)
           \/ \E l \in Trees : TreeChanges(l)
  BY <1>3, WorkInv, NavigateInv, SelectChangesInv, TreeChangesInv
<1>4. CASE Serve
  BY <1>2, <1>4, StoreAgainServer DEF Serve, Inv
<1>5. CASE \E r \in dropped : ServeDropped(r)
  BY <1>1, <1>5, StoreAgainServer DEF ServeDropped, Inv
<1>6. CASE Answer \/ Fail \/ (\E r \in dropped : AnswerDropped(r) \/ FailDropped(r)) \/ UNCHANGED vars
  BY <1>6, UnchangedServer DEF Answer, Fail, AnswerDropped, FailDropped, vars, Inv
<1>. QED BY <1>3, <1>4, <1>5, <1>6 DEF Next

(* The diffs stored for a session never go back to an earlier state of its   *)
(* messages as long as its summaries do not overlap, none of their writes    *)
(* failed and none came while a request was storing again what it had read;  *)
(* a session that was disturbed stays so.                                    *)
SettledDiffsAdvance ==
    [][\A s \in Sessions : settled'[s] =>
          settled[s] /\ stored[s].of <= stored'[s].of]_vars

(* It is what the list of the turn relies on. Requests that store again what *)
(* they have read do not break it unless a summary comes in between.         *)
THEOREM StoredDiffsAdvance == Spec => SettledDiffsAdvance
<1>1. Inv /\ [Next]_vars => \A s \in Sessions : settled'[s] =>
                               settled[s] /\ stored[s].of <= stored'[s].of
  BY StepsGrow DEF Grows
<1>. QED BY <1>1, ReceiptInvariant, PTL DEF Spec, SettledDiffsAdvance

(* No receipt, of whatever session and however old, hashes a state its       *)
(* session has not yet reached.                                              *)
ReceiptNeverAhead ==
    evidence # None =>
       /\ evidence.messages <= messages[evidence.session]
       /\ evidence.diffs <= messages[evidence.session]

(* A request reads the diffs after the messages, and summaries go on while   *)
(* it does: the receipt may mix two states, but both of them have been.      *)
THEOREM ReceiptIsOfThePast == Spec => []ReceiptNeverAhead
<1>1. Init => ReceiptNeverAhead
  BY DEF Init, ReceiptNeverAhead
<1>2. ASSUME Inv, Answer
      PROVE  ReceiptNeverAhead'
  <2>. DEFINE new == [session |-> wanted.session, messages |-> wanted.messages, diffs |-> Hashed(wanted.diffs)]
  <2>1. wanted # None /\ evidence' = new /\ messages' = messages
    BY <1>2 DEF Answer, Show, summaryVars
  <2>2. /\ new.session = wanted.session /\ new.messages = wanted.messages
        /\ new.diffs \in {Live, wanted.diffs}
    BY DEF Hashed
  <2>. HIDE DEF new
  <2>3. wanted \in Jobs /\ wanted.messages <= messages[wanted.session]
        /\ wanted.diffs <= messages[wanted.session]
    BY <1>2, <2>1 DEF Inv, PanelInv, JobsOK, JobOK
  <2>4. messages[wanted.session] \in Nat
    BY <1>2, <2>3, SummaryAssumption DEF Inv, ServerInv, SummaryTypeOK, Jobs, Versions
  <2>. QED BY <2>1, <2>2, <2>3, <2>4 DEF ReceiptNeverAhead, Live
<1>3. ASSUME Inv, ReceiptNeverAhead, [Next]_vars, ~Answer
      PROVE  ReceiptNeverAhead'
  <2>1. UNCHANGED evidence
    BY <1>3, OnlyAnswerShows
  <2>2. \A s \in Sessions : messages[s] <= messages'[s]
    BY <1>3, StepsGrow DEF Grows
  <2>3. ASSUME evidence # None
        PROVE  /\ evidence.session \in Sessions /\ evidence.messages \in Int /\ evidence.diffs \in Int
               /\ messages[evidence.session] \in Int /\ messages'[evidence.session] \in Int
    <3>1. evidence \in Receipts
      BY <1>3, <2>3 DEF Inv, PanelInv, PanelTypeOK
    <3>2. evidence.session \in Sessions /\ evidence.messages \in Int /\ evidence.diffs \in Int
      BY <3>1 DEF Receipts, Versions, Live
    <3>3. SummaryTypeOK /\ SummaryTypeOK'
      <4>1. Inv'
        BY <1>3, WorkInv, NavigateInv, SelectChangesInv, TreeChangesInv, ServeInv, AnswerInv, FailInv, DroppedStepsInv, StutterInv DEF Next
      <4>. QED BY <1>3, <4>1 DEF Inv, ServerInv
    <3>. QED BY <3>2, <3>3 DEF SummaryTypeOK, Versions
  <2>. QED BY <1>3, <2>1, <2>2, <2>3 DEF ReceiptNeverAhead
<1>. QED BY <1>1, <1>2, <1>3, ReceiptInvariant, PTL DEF Spec
-----------------------------------------------------------------------------
(* Refinement: the panel shows an answer only to the question asked last.    *)

Question == IF route = None THEN None ELSE [session |-> route, since |-> since.messages]

LEMMA QuestionFields ==
    ASSUME Inv, route # None
    PROVE  /\ Question \in [session : Sessions, since : Versions]
           /\ Question.session = route /\ Question.since = since.messages
BY DEF Inv, PanelInv, PanelTypeOK, Question

(* Asking again is a question or, with no session on screen, none. *)
LEMMA RefetchAsks ==
    ASSUME Inv, Inv', Grows, NEW s \in Sessions \cup {None}, route' = s, Refetch(s)
    PROVE  Latest!Ask \/ Latest!Leave
<1>1. UNCHANGED evidence
  BY DEF Refetch
<1>2. CASE s = None
  BY <1>1, <1>2 DEF Refetch, Latest!Leave
<1>3. CASE s # None
  <2>. DEFINE q == [session |-> s, since |-> since'.messages]
  <2>1. q \in [session : Sessions, since : Versions] /\ q.session = s /\ q.since = since'.messages
    BY <1>3 DEF Inv, PanelInv, PanelTypeOK
  <2>2. fetch' = "pending" /\ since'.messages = messages'[s]
    BY <1>3 DEF Refetch
  <2>3. evidence # None /\ evidence.session = s => evidence.messages <= since'.messages
    BY <1>1, <2>2 DEF Inv, PanelInv, EvidenceOK
  <2>4. (IF route' = None THEN None ELSE [session |-> route', since |-> since'.messages]) = q
    BY <1>3
  <2>. HIDE DEF q
  <2>. QED BY <1>1, <2>1, <2>2, <2>3, <2>4 DEF Latest!Ask, Latest!Questions
<1>. QED BY <1>2, <1>3

LEMMA StepRefines == ASSUME Inv, [Next]_vars PROVE [Latest!Next]_(Latest!latestVars)
<1>1. CASE Work
  <2>1. CASE ListOnScreenChanges
    <3>1. Refetch(route) /\ route' = route /\ route \in Sessions \cup {None} /\ Inv' /\ Grows
      BY <1>1, <2>1, WorkInv DEF Work, Inv, PanelInv, PanelTypeOK
    <3>. QED BY <3>1, RefetchAsks DEF Latest!Next
  <2>2. CASE ~ListOnScreenChanges
    BY <1>1, <2>2 DEF Work, Latest!latestVars
  <2>. QED BY <2>1, <2>2
<1>2. ASSUME NEW s \in Sessions \cup {None}, Navigate(s) PROVE Latest!Next
  <2>1. Inv' /\ Grows /\ route' = s /\ Refetch(s)
    BY <1>2, NavigateInv DEF Navigate
  <2>. QED BY <2>1, RefetchAsks DEF Latest!Next
<1>3. CASE Answer
  <2>1. fetch = "pending" /\ fetch' = "answered" /\ route # None /\ UNCHANGED <<route, since>>
    BY <1>3 DEF Answer, Show, Inv, PanelInv, PanelTypeOK, QuestionOK
  <2>2. Question.session = route /\ Question.since = since.messages
    BY <2>1, QuestionFields
  <2>3. evidence' # None /\ evidence'.session = route /\ since.messages <= evidence'.messages
        /\ evidence'.messages \in Versions /\ since.messages \in Versions
    BY <1>3, AnswerShows DEF Inv, PanelInv, PanelTypeOK, Answer, Jobs
  <2>4. evidence'.messages >= since.messages
    BY <2>3 DEF Versions
  <2>. QED BY <2>1, <2>2, <2>3, <2>4 DEF Latest!Next, Latest!Answer, Question
<1>4. CASE Fail
  BY <1>4 DEF Fail, Inv, PanelInv, QuestionOK, Latest!Next, Latest!Fail
<1>5. CASE Serve
  BY <1>5 DEF Serve, Latest!latestVars
<1>6. ASSUME NEW r \in dropped, ServeDropped(r) \/ AnswerDropped(r) \/ FailDropped(r)
      PROVE  UNCHANGED Latest!latestVars
  BY <1>6 DEF ServeDropped, AnswerDropped, IgnoreCancelled, FailDropped, Latest!latestVars
<1>7. CASE UNCHANGED vars
  BY <1>7 DEF vars, panelVars, Latest!latestVars
<1>8. ASSUME \/ \E m \in Modes : SelectChanges(m)
             \/ \E l \in Trees : TreeChanges(l)
      PROVE  Latest!Next
  <2>1. Inv' /\ Grows
    BY <1>8, SelectChangesInv, TreeChangesInv
  <2>2. route' = route /\ Refetch(route) /\ route \in Sessions \cup {None}
    BY <1>8 DEF SelectChanges, TreeChanges, Inv, PanelInv, PanelTypeOK
  <2>. QED BY <2>1, <2>2, RefetchAsks DEF Latest!Next
<1>. QED BY <1>1, <1>2, <1>3, <1>4, <1>5, <1>6, <1>7, <1>8 DEF Next

(* The panel, with its cancelled requests and the server's reads of messages *)
(* and diffs at different times, is one in which the latest question wins.   *)
THEOREM ReceiptRefinesLatestRequestWins == Spec => ImplementsLatestRequestWins
<1>1. Init => Latest!Init
  BY DEF Init, Latest!Init
<1>2. Spec => Latest!Spec
  BY <1>1, StepRefines, ReceiptInvariant, PTL DEF Spec, Latest!Spec
<1>. QED BY <1>2 DEF ImplementsLatestRequestWins
===============================================================================
