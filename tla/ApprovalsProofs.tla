-------------------------- MODULE ApprovalsProofs --------------------------
(***************************************************************************)
(* What the approval ledger guarantees for every set of texts, sessions,   *)
(* requests and reviewers and any number of edits and crashes.             *)
(***************************************************************************)
EXTENDS Approvals, TLAPS

(* A decision in force on disk is the last one a human made.               *)
RecordsAreDecisions ==
    \A a \in Artifacts : human[a].verdict # "none" => decided[a] = human[a]

(* What is about to be written carries the hash the session showed.        *)
WritesWhatWasShown ==
    \A r \in Requests : request[r].stage = "writing" => request[r].checked = Shown(r)

(* The daemon has one thread.                                              *)
OneTurn ==
    \A r, q \in Requests : request[r].stage \in InTurn /\ request[q].stage \in InTurn => r = q

(* An approval is written while everything upstream has one.               *)
ApprovesOnApproved ==
    \A r \in Requests : request[r].stage = "writing" /\ request[r].approve =>
        \A u \in Ancestors(Target(r)) : human[u].verdict = "green"

LedgerInv ==
    /\ RecordsAreDecisions /\ WritesWhatWasShown /\ OneTurn
    /\ ApprovesOnApproved /\ DenialReachesDownstream

ApprovalInv == TypeOK /\ LedgerInv

-----------------------------------------------------------------------------
(* The graph: what an artifact depends on is in the change and is not the   *)
(* artifact itself.                                                         *)
LEMMA GraphShape ==
    ASSUME NEW a \in Artifacts
    PROVE  /\ Ancestors(a) \subseteq Artifacts /\ a \notin Ancestors(a)
           /\ DownstreamOf(a) \subseteq Artifacts
           /\ \A b \in Ancestors(a) : \E u \in Upstream(a) : b \in {u} \cup Ancestors(u)
<1>1. a \in {"proposal", "design", "specs", "tasks"}
  BY ArtifactsAssumption
<1>2. /\ Dependencies["proposal"] = {} /\ Dependencies["design"] = {"proposal"}
      /\ Dependencies["specs"] = {"proposal"} /\ Dependencies["tasks"] = {"design", "specs"}
  BY DEF Dependencies
<1>3. a \notin Ancestors(a)
  BY <1>1, <1>2 DEF Ancestors, Upstream
<1>4. \A b \in Ancestors(a) : \E u \in Upstream(a) : b \in {u} \cup Ancestors(u)
  BY DEF Ancestors
<1> QED
  BY <1>3, <1>4 DEF Ancestors, Upstream, DownstreamOf

(* The artifact named first is one of the artifacts given.                  *)
LEMMA FirstIsIn ==
    ASSUME NEW S, S \subseteq Artifacts, S # {}
    PROVE  First(S) \in S
<1>1. /\ ArtifactOrder["proposal"] = 0 /\ ArtifactOrder["design"] = 1
      /\ ArtifactOrder["specs"] = 2 /\ ArtifactOrder["tasks"] = 3
  BY DEF ArtifactOrder
<1>2. S \subseteq {"proposal", "design", "specs", "tasks"}
  BY ArtifactsAssumption
<1>3. \E d \in S : \A e \in S : ArtifactOrder[d] <= ArtifactOrder[e]
  <2>1. CASE "proposal" \in S
    BY <1>1, <1>2, <2>1
  <2>2. CASE "proposal" \notin S /\ "design" \in S
    BY <1>1, <1>2, <2>2
  <2>3. CASE "proposal" \notin S /\ "design" \notin S /\ "specs" \in S
    BY <1>1, <1>2, <2>3
  <2>4. CASE S = {"tasks"}
    BY <1>1, <2>4
  <2> QED
    BY <1>2, <2>1, <2>2, <2>3, <2>4
<1> QED
  BY <1>3 DEF First

(* The blank records have the right shape.                                  *)
LEMMA Blanks ==
    /\ NoRecord \in HumanRecords
    /\ NoRequest \in RequestRecords
    /\ NoSession \in SessionRecords
    /\ NoReview \in ReviewRecords
    /\ FirstText \in Texts
<1>1. (CHOOSE a \in Artifacts : TRUE) \in Artifacts /\ (CHOOSE n \in Nonces : TRUE) \in Nonces
  BY ArtifactsAssumption
<1>2. FirstText \in Texts
  BY ArtifactsAssumption DEF FirstText
<1>3. NoRecord \in HumanRecords
  BY DEF NoRecord, HumanRecords, Contents
<1>4. NoRequest \in RequestRecords
  BY <1>1 DEF NoRequest, RequestRecords, Contents, Stages
<1>5. NoSession \in SessionRecords
  BY <1>1 DEF NoSession, SessionRecords, Contents
<1>6. NoReview \in ReviewRecords
  BY <1>1 DEF NoReview, ReviewRecords, Contents
<1> QED
  BY <1>2, <1>3, <1>4, <1>5, <1>6

(* A request keeps its shape when it moves to another stage, and gets a     *)
(* good one when it is answered.                                            *)
LEMMA RequestShapes ==
    ASSUME NEW q \in RequestRecords, NEW stage \in Stages
    PROVE  /\ [q EXCEPT !.stage = stage] \in RequestRecords
           /\ [NoRequest EXCEPT !.stage = stage] \in RequestRecords
BY Blanks DEF RequestRecords

LEMMA RequestMoves ==
    ASSUME TypeOK, NEW r \in Requests, NEW stage \in Stages
    PROVE  /\ Goto(r, stage) => request' \in [Requests -> RequestRecords]
           /\ Answer(r, stage) => request' \in [Requests -> RequestRecords]
<1>1. request \in [Requests -> RequestRecords] /\ request[r] \in RequestRecords
  BY DEF TypeOK
<1>2. [request[r] EXCEPT !.stage = stage] \in RequestRecords
  BY <1>1, RequestShapes
<1>3. [NoRequest EXCEPT !.stage = stage] \in RequestRecords
  BY <1>1, RequestShapes
<1>4. ASSUME Goto(r, stage) PROVE request' \in [Requests -> RequestRecords]
  BY <1>1, <1>2, <1>4 DEF Goto
<1>5. ASSUME Answer(r, stage) PROVE request' \in [Requests -> RequestRecords]
  BY <1>1, <1>3, <1>5 DEF Answer
<1> QED
  BY <1>4, <1>5

-----------------------------------------------------------------------------
(* The shape of the state is kept by every step.                            *)

LEMMA InitTyped == Init => TypeOK
<1> SUFFICES ASSUME Init PROVE TypeOK
  OBVIOUS
<1>1. FirstText \in Contents /\ Missing \in Contents
  BY Blanks DEF Contents
<1>2. text \in [Artifacts -> Contents]
  BY <1>1 DEF Init
<1>3. automated \in [Artifacts -> AutomatedRecords]
  <2>1. NoRecord \in AutomatedRecords
    BY <1>1 DEF NoRecord, AutomatedRecords
  <2>2. [text |-> FirstText, verdict |-> "green"] \in AutomatedRecords
    BY <1>1 DEF AutomatedRecords, Verdicts
  <2> QED
    BY <2>1, <2>2 DEF Init
<1>4. human \in [Artifacts -> HumanRecords] /\ decided \in [Artifacts -> HumanRecords]
  BY <1>1, Blanks DEF Init, HumanRecords
<1>5. /\ session \in [Nonces -> SessionRecords] /\ request \in [Requests -> RequestRecords]
      /\ reviewer \in [Reviewers -> ReviewRecords]
  BY Blanks DEF Init
<1> QED
  BY <1>2, <1>3, <1>4, <1>5 DEF Init, TypeOK

LEMMA EditTyped ==
    ASSUME TypeOK, NEW a \in Artifacts, NEW t \in Contents, Edit(a, t)
    PROVE  TypeOK'
<1>1. DownstreamOf(a) \subseteq Artifacts
  BY GraphShape
<1> QED
  BY <1>1 DEF TypeOK, Edit, ledger, daemon

LEMMA ReviewTyped ==
    ASSUME TypeOK, NEW v \in Reviewers,
           \/ \E a \in Artifacts : StartReview(v, a)
           \/ SubmitReviewVerdict(v) \/ EndReview(v)
    PROVE  TypeOK'
<1>1. reviewer[v] \in ReviewRecords /\ NoReview \in ReviewRecords /\ reviewer[v].artifact \in Artifacts
  BY Blanks DEF TypeOK, ReviewRecords
<1>2. ASSUME NEW verdict \in Reported, SetAgentReviewVerdict(v, verdict)
      PROVE  automated' \in [Artifacts -> AutomatedRecords] /\ UNCHANGED <<human, lock>>
  <2> DEFINE record == [text |-> text[reviewer[v].artifact], verdict |-> verdict]
  <2>1. record \in AutomatedRecords
    BY <1>1, ArtifactsAssumption DEF TypeOK, AutomatedRecords, Verdicts, ReviewRecords
  <2>2. automated' = [automated EXCEPT ![reviewer[v].artifact] = record] /\ UNCHANGED <<human, lock>>
    BY <1>2 DEF SetAgentReviewVerdict
  <2> QED
    BY <2>1, <2>2 DEF TypeOK
<1>3. ASSUME NEW a \in Artifacts, StartReview(v, a) PROVE TypeOK'
  <2>1. [stage |-> "reviewing", artifact |-> a] \in ReviewRecords
    BY DEF TypeOK, ReviewRecords
  <2>2. reviewer' \in [Reviewers -> ReviewRecords]
    BY <1>3, <2>1 DEF StartReview, TypeOK
  <2> QED
    BY <1>3, <2>2 DEF StartReview, TypeOK, ledger, daemon, bounds, history
<1>4. CASE SubmitReviewVerdict(v)
  <2>1. PICK verdict \in Reported : SetAgentReviewVerdict(v, verdict)
    BY <1>4 DEF SubmitReviewVerdict
  <2>2. automated' \in [Artifacts -> AutomatedRecords] /\ UNCHANGED <<human, lock>>
    BY <1>2, <2>1
  <2> QED
    BY <1>4, <2>2 DEF SubmitReviewVerdict, TypeOK, daemon, bounds, history
<1>5. CASE EndReview(v)
  <2>1. [NoReview EXCEPT !.stage = "over"] \in ReviewRecords
    BY <1>1 DEF ReviewRecords
  <2>2. reviewer' \in [Reviewers -> ReviewRecords]
    BY <1>5, <2>1 DEF EndReview, TypeOK
  <2>3. automated' \in [Artifacts -> AutomatedRecords] /\ UNCHANGED <<human, lock>>
    <3>1. CASE \E verdict \in Reported : SetAgentReviewVerdict(v, verdict)
      BY <1>2, <3>1
    <3>2. CASE UNCHANGED ledger
      BY <3>2 DEF ledger, TypeOK
    <3> QED
      BY <1>5, <3>1, <3>2 DEF EndReview
  <2> QED
    BY <1>5, <2>2, <2>3 DEF EndReview, TypeOK, daemon, bounds, history
<1> QED
  BY <1>3, <1>4, <1>5

LEMMA SessionTyped ==
    ASSUME TypeOK, NEW n \in Nonces,
           \/ \E a \in Artifacts : MintSession(n, a)
           \/ ExpireSession(n)
           \/ \E r \in Requests, approve \in BOOLEAN : ReceiveDecision(r, n, approve)
    PROVE  TypeOK'
<1>1. session[n] \in SessionRecords /\ NoSession \in SessionRecords /\ NoRequest \in RequestRecords
  BY Blanks DEF TypeOK
<1>2. ASSUME NEW a \in Artifacts, MintSession(n, a) PROVE TypeOK'
  <2>1. [stage |-> "open", artifact |-> a, text |-> text[a]] \in SessionRecords
    BY DEF TypeOK, SessionRecords
  <2>2. session' \in [Nonces -> SessionRecords]
    BY <1>2, <2>1 DEF MintSession, TypeOK
  <2> QED
    BY <1>2, <2>2 DEF MintSession, TypeOK, ledger, bounds, history
<1>3. CASE ExpireSession(n)
  <2>1. [NoSession EXCEPT !.stage = "expired"] \in SessionRecords
    BY <1>1 DEF SessionRecords
  <2>2. session' \in [Nonces -> SessionRecords]
    BY <1>3, <2>1 DEF ExpireSession, TypeOK
  <2> QED
    BY <1>3, <2>2 DEF ExpireSession, TypeOK, ledger, bounds, history
<1>4. ASSUME NEW r \in Requests, NEW approve \in BOOLEAN, ReceiveDecision(r, n, approve)
      PROVE  TypeOK'
  <2> DEFINE q == [NoRequest EXCEPT !.stage = "body", !.nonce = n, !.approve = approve,
                     !.artifact = session[n].artifact, !.shown = session[n].text]
  <2>1. session[n].artifact \in Artifacts /\ session[n].text \in Contents
    BY <1>1 DEF SessionRecords
  <2>2. "body" \in Stages
    BY DEF Stages
  <2>3. q \in RequestRecords
    BY <1>1, <2>1, <2>2 DEF RequestRecords
  <2>4. request' = [request EXCEPT ![r] = q]
    BY <1>4 DEF ReceiveDecision
  <2> HIDE DEF q
  <2>5. request' \in [Requests -> RequestRecords]
    BY <2>3, <2>4 DEF TypeOK
  <2> QED
    BY <1>4, <2>5 DEF ReceiveDecision, TypeOK, ledger, bounds, history
<1> QED
  BY <1>2, <1>3, <1>4

LEMMA RequestTyped ==
    ASSUME TypeOK, NEW r \in Requests,
           ReadBody(r) \/ Validated(r) \/ CheckDecision(r)
    PROVE  TypeOK'
<1>1. {"error", "persisting", "validating", "writing"} \subseteq Stages
  BY DEF Stages, InTurn
<1>2. /\ request \in [Requests -> RequestRecords] /\ request[r] \in RequestRecords
      /\ Target(r) \in Artifacts
  BY DEF TypeOK, Target, RequestRecords
<1>3. CASE ReadBody(r)
  <2>1. request' \in [Requests -> RequestRecords]
    BY <1>1, <1>3, RequestMoves DEF ReadBody
  <2> QED
    BY <1>3, <2>1 DEF ReadBody, TypeOK, ledger, bounds, history
<1>4. CASE Validated(r)
  <2>1. ASSUME NEW passed \in BOOLEAN,
               request' = [request EXCEPT ![r].stage = "persisting", ![r].validated = passed]
        PROVE  request' \in [Requests -> RequestRecords]
    <3>1. [request[r] EXCEPT !.stage = "persisting", !.validated = passed] \in RequestRecords
      BY <1>1, <1>2 DEF RequestRecords
    <3> QED
      BY <1>2, <2>1, <3>1
  <2>2. request' \in [Requests -> RequestRecords]
    BY <1>1, <1>4, <2>1, RequestMoves DEF Validated
  <2> QED
    BY <1>4, <2>2 DEF Validated, TypeOK, ledger, bounds, history
<1>5. CASE CheckDecision(r)
  <2>1. text[Target(r)] \in Contents
    BY <1>2 DEF TypeOK
  <2>2. [request[r] EXCEPT !.stage = "writing", !.checked = text[Target(r)]] \in RequestRecords
    BY <1>1, <1>2, <2>1 DEF RequestRecords
  <2>3. request' \in [Requests -> RequestRecords] /\ lock' \in {"free", "daemon", "dead"}
    <3>1. CASE Answer(r, "error") /\ UNCHANGED lock
      BY <1>1, <3>1, RequestMoves DEF TypeOK
    <3>2. CASE /\ lock' = "daemon"
               /\ request' = [request EXCEPT ![r].stage = "writing",
                                             ![r].checked = text[Target(r)]]
      BY <1>2, <2>2, <3>2
    <3> QED
      BY <1>5, <3>1, <3>2 DEF CheckDecision
  <2> QED
    BY <1>5, <2>3 DEF CheckDecision, TypeOK, bounds, history
<1> QED
  BY <1>3, <1>4, <1>5

LEMMA WriteTyped ==
    ASSUME TypeOK, NEW r \in Requests,
           \/ WriteDecision(r) \/ WriteFails(r) \/ RemoveDownstream(r) \/ FinishRemoving(r)
    PROVE  TypeOK'
<1>1. {"error", "posting", "removing"} \subseteq Stages
  BY DEF Stages, InTurn
<1>2. /\ request \in [Requests -> RequestRecords] /\ request[r] \in RequestRecords
      /\ Target(r) \in Artifacts
  BY DEF TypeOK, Target, RequestRecords
<1>3. CASE WriteDecision(r)
  <2> DEFINE stage == IF request[r].approve THEN "posting" ELSE "removing"
             pending == IF request[r].approve THEN {} ELSE DownstreamOf(Target(r))
  <2>1. stage \in Stages /\ pending \in SUBSET Artifacts
    BY <1>1, <1>2, GraphShape
  <2>2. request' = [request EXCEPT ![r].stage = stage, ![r].pending = pending]
    BY <1>3 DEF WriteDecision
  <2> HIDE DEF stage, pending
  <2>3. [request[r] EXCEPT !.stage = stage, !.pending = pending] \in RequestRecords
    BY <1>2, <2>1 DEF RequestRecords
  <2>4. request' \in [Requests -> RequestRecords]
    BY <1>2, <2>2, <2>3
  <2>5. /\ [text |-> request[r].checked, verdict |-> VerdictOf(r)] \in HumanRecords
        /\ [text |-> Shown(r), verdict |-> VerdictOf(r)] \in HumanRecords
    BY <1>2 DEF RequestRecords, HumanRecords, VerdictOf, Shown
  <2>6. human' \in [Artifacts -> HumanRecords] /\ decided' \in [Artifacts -> HumanRecords]
    BY <1>3, <2>5 DEF WriteDecision, TypeOK
  <2>7. lock' \in {"free", "daemon", "dead"}
    BY <1>3 DEF WriteDecision, TypeOK
  <2> QED
    BY <1>3, <2>4, <2>6, <2>7 DEF WriteDecision, TypeOK, bounds
<1>4. CASE WriteFails(r)
  <2>1. request' \in [Requests -> RequestRecords]
    BY <1>1, <1>4, RequestMoves DEF WriteFails
  <2> QED
    BY <1>4, <2>1 DEF WriteFails, TypeOK, bounds, history
<1>5. CASE RemoveDownstream(r)
  <2> DEFINE d == First(request[r].pending)
  <2>1. [request[r] EXCEPT !.pending = @ \ {d}] \in RequestRecords
    BY <1>2 DEF RequestRecords
  <2>2. request' = [request EXCEPT ![r].pending = @ \ {d}] /\ human' = [human EXCEPT ![d] = NoRecord]
    BY <1>5 DEF RemoveDownstream
  <2> HIDE DEF d
  <2>3. request' \in [Requests -> RequestRecords]
    BY <1>2, <2>1, <2>2
  <2>4. human' \in [Artifacts -> HumanRecords]
    BY <2>2, Blanks DEF TypeOK
  <2> QED
    BY <1>5, <2>3, <2>4 DEF RemoveDownstream, TypeOK, bounds
<1>6. CASE FinishRemoving(r)
  <2>1. request' \in [Requests -> RequestRecords]
    <3>1. "posting" \in Stages
      BY <1>1
    <3>2. Goto(r, "posting")
      BY <1>6 DEF FinishRemoving
    <3> QED
      BY <3>1, <3>2, RequestMoves
  <2> QED
    BY <1>6, <2>1 DEF FinishRemoving, TypeOK, bounds, history
<1> QED
  BY <1>3, <1>4, <1>5, <1>6

LEMMA PostTyped ==
    ASSUME TypeOK, NEW r \in Requests, PostDecision(r)
    PROVE  TypeOK'
<1>1. /\ request[r] \in RequestRecords /\ NoSession \in SessionRecords
      /\ Target(r) \in Artifacts /\ request[r].nonce \in Nonces
      /\ request[r].approve \in BOOLEAN /\ request[r].validated \in BOOLEAN
  BY Blanks DEF TypeOK, Target, RequestRecords
<1>2. NextAuthorable \in Artifacts \cup {"none"}
  <2> DEFINE open == {a \in Artifacts : /\ text[a] = Missing
                                        /\ \A u \in Upstream(a) : IsArtifactApproved(u)}
  <2>1. CASE open = {}
    BY <2>1 DEF NextAuthorable
  <2>2. CASE open # {}
    <3>1. open \subseteq Artifacts /\ NextAuthorable = First(open)
      BY <2>2 DEF NextAuthorable
    <3> HIDE DEF open
    <3> QED
      BY <2>2, <3>1, FirstIsIn
  <2> QED
    BY <2>1, <2>2
<1>3. ActionOf(r) \in ActionRecords
  <2>1. ActionOf(r).ready \in BOOLEAN
    BY <1>1 DEF ActionOf
  <2> QED
    BY <1>1, <1>2 DEF ActionOf, ActionRecords
<1>4. actions' \in Seq(ActionRecords)
  <2>1. Append(actions, ActionOf(r)) \in Seq(ActionRecords)
    BY <1>3 DEF TypeOK
  <2> QED
    BY <2>1 DEF PostDecision, TypeOK
<1>5. session' \in [Nonces -> SessionRecords]
  <2>1. [NoSession EXCEPT !.stage = "used"] \in SessionRecords
    BY <1>1 DEF SessionRecords
  <2> QED
    BY <2>1 DEF PostDecision, TypeOK
<1>6. request' \in [Requests -> RequestRecords]
  BY RequestMoves DEF PostDecision, Stages
<1> QED
  BY <1>4, <1>5, <1>6 DEF PostDecision, TypeOK, ledger, bounds, history

LEMMA CrashTyped ==
    ASSUME TypeOK, Crash \/ BreakStaleLock
    PROVE  TypeOK'
<1>1. CASE Crash
  <2>1. [NoSession EXCEPT !.stage = "expired"] \in SessionRecords
    BY Blanks DEF SessionRecords
  <2>2. [NoRequest EXCEPT !.stage = "error"] \in RequestRecords
    BY Blanks, RequestShapes DEF Stages
  <2>3. session' \in [Nonces -> SessionRecords]
    BY <1>1, <2>1 DEF Crash, TypeOK
  <2>4. request' \in [Requests -> RequestRecords]
    BY <1>1, <2>2 DEF Crash, TypeOK
  <2>5. \A r \in Requests : Target(r) \in Artifacts
    BY DEF TypeOK, Target, RequestRecords
  <2>6. interrupted' \subseteq Artifacts
    BY <1>1, <2>5 DEF Crash, TypeOK
  <2> QED
    BY <1>1, <2>3, <2>4, <2>6 DEF Crash, TypeOK
<1>2. CASE BreakStaleLock
  BY <1>2 DEF BreakStaleLock, TypeOK, daemon, bounds, history
<1> QED
  BY <1>1, <1>2

LEMMA RemoveFailsTyped ==
    ASSUME TypeOK, NEW r \in Requests, RemoveFails(r)
    PROVE  TypeOK'
<1>1. request' \in [Requests -> RequestRecords]
  BY RequestMoves DEF RemoveFails, Stages
<1>2. Target(r) \in Artifacts
  BY DEF TypeOK, Target, RequestRecords
<1> QED
  BY <1>1, <1>2 DEF RemoveFails, TypeOK, bounds

LEMMA StepTyped == TypeOK /\ [Next]_vars => TypeOK'
<1> SUFFICES ASSUME TypeOK, [Next]_vars PROVE TypeOK'
  OBVIOUS
<1>1. CASE UNCHANGED vars
  BY <1>1 DEF TypeOK, vars, ledger, daemon, bounds, history
<1>2. CASE Next
  BY <1>2, EditTyped, ReviewTyped, SessionTyped, RequestTyped, WriteTyped, RemoveFailsTyped,
     PostTyped, CrashTyped
  DEF Next, Handle
<1> QED
  BY <1>1, <1>2

-----------------------------------------------------------------------------
(* The invariant of the ledger.  Most steps touch at most one request.      *)

LEMMA Undisturbed ==
    ASSUME LedgerInv, UNCHANGED <<request, human, decided, interrupted>>
    PROVE  LedgerInv'
BY DEF LedgerInv, RecordsAreDecisions, WritesWhatWasShown, OneTurn, ApprovesOnApproved,
   DenialReachesDownstream, Shown, Target

(* A step of one request keeps the invariant when it enters the daemon's    *)
(* turn alone, writes what was shown on top of approvals, and leaves no     *)
(* removal behind.                                                          *)
LEMMA OneRequestMoves ==
    ASSUME TypeOK, LedgerInv, NEW r \in Requests, NEW x \in RequestRecords,
           request' = [request EXCEPT ![r] = x],
           UNCHANGED <<human, decided, interrupted>>,
           x.stage \in InTurn => \A q \in Requests : q # r => request[q].stage \notin InTurn,
           x.stage = "writing" => x.checked = x.shown,
           x.stage = "writing" /\ x.approve =>
               \A u \in Ancestors(x.artifact) : human[u].verdict = "green",
           request[r].stage = "removing" => request[r].pending = {}
    PROVE  LedgerInv'
<1>1. /\ request'[r] = x
      /\ \A q \in Requests : q # r => request'[q] = request[q]
  BY DEF TypeOK
<1>2. RecordsAreDecisions'
  BY DEF LedgerInv, RecordsAreDecisions
<1>3. WritesWhatWasShown'
  BY <1>1 DEF LedgerInv, WritesWhatWasShown, Shown
<1>4. OneTurn'
  BY <1>1 DEF LedgerInv, OneTurn
<1>5. ApprovesOnApproved'
  BY <1>1 DEF LedgerInv, ApprovesOnApproved, Target
<1>6. DenialReachesDownstream'
  <2> SUFFICES ASSUME NEW a \in Artifacts, NEW d \in Artifacts, a \in Ancestors(d),
                      human[a].verdict = "red", a \notin interrupted,
                      human[d].verdict = "green"
               PROVE  \E q \in Requests : /\ request'[q].stage = "removing"
                                          /\ request'[q].artifact = a /\ d \in request'[q].pending
    BY DEF DenialReachesDownstream, Target
  <2>1. PICK q \in Requests : /\ request[q].stage = "removing"
                              /\ request[q].artifact = a /\ d \in request[q].pending
    BY DEF LedgerInv, DenialReachesDownstream, Target
  <2>2. q # r
    BY <2>1
  <2> QED
    BY <1>1, <2>1, <2>2
<1> QED
  BY <1>2, <1>3, <1>4, <1>5, <1>6 DEF LedgerInv

LEMMA AnswerKeeps ==
    ASSUME TypeOK, LedgerInv, NEW r \in Requests, NEW status \in {"ok", "error"},
           Answer(r, status), UNCHANGED <<human, decided, interrupted>>,
           request[r].stage # "removing"
    PROVE  LedgerInv'
<1> DEFINE x == [NoRequest EXCEPT !.stage = status]
<1>1. x \in RequestRecords /\ x.stage = status /\ status \notin InTurn
  BY Blanks DEF RequestRecords, Stages, InTurn
<1>2. request' = [request EXCEPT ![r] = x]
  BY DEF Answer
<1> HIDE DEF x
<1> QED
  BY <1>1, <1>2, OneRequestMoves DEF InTurn

LEMMA GotoKeeps ==
    ASSUME TypeOK, LedgerInv, NEW r \in Requests,
           NEW stage \in {"validating", "persisting", "posting"},
           Goto(r, stage), UNCHANGED <<human, decided, interrupted>>,
           stage \in InTurn => \A q \in Requests : q # r => request[q].stage \notin InTurn,
           request[r].stage = "removing" => request[r].pending = {}
    PROVE  LedgerInv'
<1> DEFINE x == [request[r] EXCEPT !.stage = stage]
<1>1. request \in [Requests -> RequestRecords] /\ request[r] \in RequestRecords
  BY DEF TypeOK
<1>2. x \in RequestRecords /\ x.stage = stage /\ x.stage # "writing"
  BY <1>1 DEF RequestRecords, Stages, InTurn
<1>3. request' = [request EXCEPT ![r] = x]
  BY <1>1 DEF Goto
<1> HIDE DEF x
<1> QED
  BY <1>2, <1>3, OneRequestMoves

LEMMA ReceiveKeeps ==
    ASSUME TypeOK, LedgerInv, NEW r \in Requests, NEW n \in Nonces, NEW approve \in BOOLEAN,
           ReceiveDecision(r, n, approve)
    PROVE  LedgerInv'
<1> DEFINE x == [NoRequest EXCEPT !.stage = "body", !.nonce = n, !.approve = approve,
                   !.artifact = session[n].artifact, !.shown = session[n].text]
<1>1. session[n] \in SessionRecords /\ NoRequest \in RequestRecords
  BY Blanks DEF TypeOK
<1>2. x \in RequestRecords /\ x.stage = "body"
  BY <1>1 DEF RequestRecords, SessionRecords, Stages
<1>3. request' = [request EXCEPT ![r] = x] /\ request[r].stage = "none"
  BY DEF ReceiveDecision
<1>4. UNCHANGED <<human, decided, interrupted>>
  BY DEF ReceiveDecision, ledger, history
<1> HIDE DEF x
<1> QED
  BY <1>2, <1>3, <1>4, OneRequestMoves DEF InTurn

LEMMA AwaitKeeps ==
    ASSUME TypeOK, LedgerInv, NEW r \in Requests, ReadBody(r) \/ Validated(r)
    PROVE  LedgerInv'
<1>1. UNCHANGED <<human, decided, interrupted>>
  BY DEF ReadBody, Validated, ledger, history
<1>2. /\ request[r].stage \in {"body", "validating"}
      /\ \A q \in Requests : request[q].stage \notin InTurn
  BY DEF ReadBody, Validated, Idle
<1>3. CASE Answer(r, "error")
  BY <1>1, <1>2, <1>3, AnswerKeeps
<1>4. CASE Goto(r, "persisting")
  BY <1>1, <1>2, <1>4, GotoKeeps
<1>5. CASE Goto(r, "validating")
  BY <1>1, <1>2, <1>5, GotoKeeps
<1>6. ASSUME NEW passed \in BOOLEAN,
             request' = [request EXCEPT ![r].stage = "persisting", ![r].validated = passed]
      PROVE  LedgerInv'
  <2> DEFINE x == [request[r] EXCEPT !.stage = "persisting", !.validated = passed]
  <2>1. request \in [Requests -> RequestRecords] /\ request[r] \in RequestRecords
    BY DEF TypeOK
  <2>2. x \in RequestRecords /\ x.stage = "persisting"
    BY <2>1 DEF RequestRecords, Stages, InTurn
  <2>3. request' = [request EXCEPT ![r] = x]
    BY <1>6, <2>1
  <2> HIDE DEF x
  <2> QED
    BY <1>1, <1>2, <2>2, <2>3, OneRequestMoves
<1> QED
  BY <1>3, <1>4, <1>5, <1>6 DEF ReadBody, Validated

LEMMA CheckKeeps ==
    ASSUME TypeOK, LedgerInv, NEW r \in Requests, CheckDecision(r)
    PROVE  LedgerInv'
<1>1. UNCHANGED <<human, decided, interrupted>> /\ request[r].stage = "persisting"
  BY DEF CheckDecision, history
<1>2. \A q \in Requests : q # r => request[q].stage \notin InTurn
  BY <1>1 DEF LedgerInv, OneTurn, InTurn
<1>3. CASE Answer(r, "error")
  BY <1>1, <1>3, AnswerKeeps
<1>4. CASE /\ MayDecide(r)
           /\ request' = [request EXCEPT ![r].stage = "writing",
                                         ![r].checked = text[Target(r)]]
  <2> DEFINE x == [request[r] EXCEPT !.stage = "writing", !.checked = text[Target(r)]]
  <2>1. /\ request \in [Requests -> RequestRecords] /\ request[r] \in RequestRecords
        /\ Target(r) \in Artifacts /\ text[Target(r)] \in Contents
    BY DEF TypeOK, Target, RequestRecords
  <2>2. /\ x \in RequestRecords /\ x.stage = "writing" /\ x.checked = text[Target(r)]
        /\ x.shown = Shown(r) /\ x.approve = request[r].approve /\ x.artifact = Target(r)
    BY <2>1 DEF RequestRecords, Stages, InTurn, Shown, Target
  <2>3. request' = [request EXCEPT ![r] = x]
    BY <1>4, <2>1
  <2>4. x.checked = x.shown
    BY <1>4, <2>2 DEF MayDecide
  <2>5. ASSUME x.approve PROVE \A u \in Ancestors(x.artifact) : human[u].verdict = "green"
    <3>1. \A u \in Upstream(Target(r)) : IsArtifactApproved(u)
      BY <1>4, <2>2, <2>5 DEF MayDecide
    <3>2. \A u \in Upstream(Target(r)) : \A b \in {u} \cup Ancestors(u) :
             human[b].verdict = "green"
      BY <3>1 DEF IsArtifactApproved, OwnApproval
    <3> QED
      BY <2>1, <2>2, <3>2, GraphShape
  <2> HIDE DEF x
  <2> QED
    BY <1>1, <1>2, <2>2, <2>3, <2>4, <2>5, OneRequestMoves
<1> QED
  BY <1>3, <1>4 DEF CheckDecision

LEMMA WriteKeeps ==
    ASSUME TypeOK, LedgerInv, NEW r \in Requests, WriteDecision(r)
    PROVE  LedgerInv'
<1> DEFINE a == Target(r)
           stage == IF request[r].approve THEN "posting" ELSE "removing"
           pending == IF request[r].approve THEN {} ELSE DownstreamOf(a)
           record == [text |-> request[r].checked, verdict |-> VerdictOf(r)]
<1>1. /\ request[r].stage = "writing" /\ request[r] \in RequestRecords /\ a \in Artifacts
      /\ request \in [Requests -> RequestRecords] /\ human \in [Artifacts -> HumanRecords]
      /\ decided \in [Artifacts -> HumanRecords]
  BY DEF WriteDecision, TypeOK, Target, RequestRecords
<1>2. request[r].checked = Shown(r)
  BY <1>1 DEF LedgerInv, WritesWhatWasShown
<1>3. human' = [human EXCEPT ![a] = record] /\ decided' = [decided EXCEPT ![a] = record]
  BY <1>2 DEF WriteDecision
<1>4. request' = [request EXCEPT ![r].stage = stage, ![r].pending = pending]
  BY DEF WriteDecision
<1>5. interrupted' = interrupted \ {a}
  BY DEF WriteDecision
<1>6. \A q \in Requests : q # r => request[q].stage \notin InTurn
  BY <1>1 DEF LedgerInv, OneTurn, InTurn
<1>7. /\ request'[r].stage = stage /\ request'[r].pending = pending
      /\ request'[r].artifact = a
      /\ \A q \in Requests : q # r => request'[q] = request[q]
  BY <1>1, <1>4 DEF RequestRecords, Target
<1>8. record.verdict = (IF request[r].approve THEN "green" ELSE "red")
  BY DEF VerdictOf
<1>9. human'[a] = record /\ \A b \in Artifacts : b # a => human'[b] = human[b]
  BY <1>1, <1>3
<1>10. \A q \in Requests : request'[q].stage # "writing"
  BY <1>6, <1>7 DEF InTurn
<1>11. RecordsAreDecisions'
  BY <1>1, <1>3 DEF LedgerInv, RecordsAreDecisions
<1>12. WritesWhatWasShown' /\ ApprovesOnApproved'
  BY <1>10 DEF WritesWhatWasShown, ApprovesOnApproved
<1>13. OneTurn'
  BY <1>6, <1>7 DEF OneTurn
<1>14. DenialReachesDownstream'
  <2> SUFFICES ASSUME NEW b \in Artifacts, NEW d \in Artifacts, b \in Ancestors(d),
                      human'[b].verdict = "red", b \notin interrupted',
                      human'[d].verdict = "green"
               PROVE  \E q \in Requests : /\ request'[q].stage = "removing"
                                          /\ request'[q].artifact = b /\ d \in request'[q].pending
    BY DEF DenialReachesDownstream, Target
  <2>1. b # d
    BY GraphShape
  <2>2. CASE b = a
    <3>1. ~request[r].approve
      BY <1>8, <1>9, <2>2
    <3>2. stage = "removing" /\ d \in pending
      BY <2>2, <3>1 DEF DownstreamOf
    <3> QED
      BY <1>7, <2>2, <3>2
  <2>3. CASE b # a
    <3>1. human[b].verdict = "red" /\ b \notin interrupted
      BY <1>5, <1>9, <2>3
    <3>2. CASE d = a
      <4>1. request[r].approve
        BY <1>8, <1>9, <3>2
      <4>2. human[b].verdict = "green"
        BY <1>1, <3>2, <4>1 DEF LedgerInv, ApprovesOnApproved
      <4> QED
        BY <3>1, <4>2
    <3>3. CASE d # a
      <4>1. human[d].verdict = "green"
        BY <1>9, <3>3
      <4>2. PICK q \in Requests : request[q].stage = "removing"
        BY <3>1, <4>1 DEF LedgerInv, DenialReachesDownstream
      <4> QED
        BY <1>1, <1>6, <4>2 DEF InTurn
    <3> QED
      BY <3>2, <3>3
  <2> QED
    BY <2>2, <2>3
<1> QED
  BY <1>11, <1>12, <1>13, <1>14 DEF LedgerInv

LEMMA RemoveKeeps ==
    ASSUME TypeOK, LedgerInv, NEW r \in Requests, RemoveDownstream(r)
    PROVE  LedgerInv'
<1> DEFINE d == First(request[r].pending)
<1>1. /\ request[r].stage = "removing" /\ request[r] \in RequestRecords
      /\ request \in [Requests -> RequestRecords] /\ human \in [Artifacts -> HumanRecords]
      /\ request[r].pending # {} /\ request[r].pending \subseteq Artifacts
  BY DEF RemoveDownstream, TypeOK, RequestRecords
<1>2. d \in Artifacts
  BY <1>1, FirstIsIn
<1>3. /\ human' = [human EXCEPT ![d] = NoRecord]
      /\ request' = [request EXCEPT ![r].pending = @ \ {d}]
      /\ UNCHANGED <<decided, interrupted>>
  BY DEF RemoveDownstream
<1> HIDE DEF d
<1>4. /\ request'[r].stage = "removing" /\ request'[r].pending = request[r].pending \ {d}
      /\ request'[r].artifact = request[r].artifact
      /\ \A q \in Requests : q # r => request'[q] = request[q]
  BY <1>1, <1>3 DEF RequestRecords
<1>5. /\ human'[d] = NoRecord /\ \A b \in Artifacts : b # d => human'[b] = human[b]
      /\ NoRecord.verdict = "none"
  BY <1>1, <1>2, <1>3 DEF NoRecord
<1>6. \A q \in Requests : q # r => request[q].stage \notin InTurn
  BY <1>1 DEF LedgerInv, OneTurn, InTurn
<1>7. \A q \in Requests : request'[q].stage # "writing"
  BY <1>4, <1>6 DEF InTurn
<1>8. RecordsAreDecisions'
  BY <1>3, <1>5 DEF LedgerInv, RecordsAreDecisions
<1>9. WritesWhatWasShown' /\ ApprovesOnApproved'
  BY <1>7 DEF WritesWhatWasShown, ApprovesOnApproved
<1>10. OneTurn'
  BY <1>4, <1>6 DEF OneTurn
<1>11. DenialReachesDownstream'
  <2> SUFFICES ASSUME NEW b \in Artifacts, NEW e \in Artifacts, b \in Ancestors(e),
                      human'[b].verdict = "red", b \notin interrupted',
                      human'[e].verdict = "green"
               PROVE  \E q \in Requests : /\ request'[q].stage = "removing"
                                          /\ request'[q].artifact = b /\ e \in request'[q].pending
    BY DEF DenialReachesDownstream, Target
  <2>1. b # d /\ e # d
    BY <1>5
  <2>2. PICK q \in Requests : /\ request[q].stage = "removing"
                              /\ request[q].artifact = b /\ e \in request[q].pending
    BY <1>3, <1>5, <2>1 DEF LedgerInv, DenialReachesDownstream, Target
  <2> QED
    BY <1>4, <2>1, <2>2
<1> QED
  BY <1>8, <1>9, <1>10, <1>11 DEF LedgerInv

LEMMA FinishKeeps ==
    ASSUME TypeOK, LedgerInv, NEW r \in Requests,
           WriteFails(r) \/ FinishRemoving(r) \/ PostDecision(r)
    PROVE  LedgerInv'
<1>1. UNCHANGED <<human, decided, interrupted>>
  BY DEF WriteFails, FinishRemoving, PostDecision, ledger, history
<1>2. CASE WriteFails(r)
  <2>1. Answer(r, "error") /\ request[r].stage = "writing"
    BY <1>2 DEF WriteFails
  <2> QED
    BY <1>1, <2>1, AnswerKeeps
<1>3. CASE FinishRemoving(r)
  <2>1. Goto(r, "posting") /\ request[r].stage = "removing" /\ request[r].pending = {}
    BY <1>3 DEF FinishRemoving
  <2>2. \A q \in Requests : q # r => request[q].stage \notin InTurn
    BY <2>1 DEF LedgerInv, OneTurn, InTurn
  <2> QED
    BY <1>1, <2>1, <2>2, GotoKeeps
<1>4. CASE PostDecision(r)
  <2>1. /\ Answer(r, "ok") \/ Answer(r, "error")
        /\ request[r].stage = "posting"
    BY <1>4 DEF PostDecision
  <2> QED
    BY <1>1, <2>1, AnswerKeeps
<1> QED
  BY <1>2, <1>3, <1>4

(* The daemon dies: what was in its turn is gone, and a denial that had     *)
(* records left to remove is remembered as interrupted.                     *)
LEMMA CrashKeeps ==
    ASSUME TypeOK, LedgerInv, Crash
    PROVE  LedgerInv'
<1>1. \A r \in Requests : request'[r].stage \in {"none", "ok", "error"}
  BY Blanks DEF Crash, RequestRecords
<1>2. UNCHANGED <<human, decided>>
  BY DEF Crash
<1>3. RecordsAreDecisions'
  BY <1>2 DEF LedgerInv, RecordsAreDecisions
<1>4. WritesWhatWasShown' /\ ApprovesOnApproved' /\ OneTurn'
  BY <1>1 DEF WritesWhatWasShown, ApprovesOnApproved, OneTurn, InTurn
<1>5. DenialReachesDownstream'
  <2> SUFFICES ASSUME NEW a \in Artifacts, NEW d \in Artifacts, a \in Ancestors(d),
                      human[a].verdict = "red", a \notin interrupted',
                      human[d].verdict = "green"
               PROVE  FALSE
    BY <1>2 DEF DenialReachesDownstream
  <2>1. a \notin interrupted
    BY DEF Crash
  <2>2. PICK q \in Requests : /\ request[q].stage = "removing"
                              /\ Target(q) = a /\ d \in request[q].pending
    BY <2>1 DEF LedgerInv, DenialReachesDownstream
  <2>3. a \in interrupted'
    BY <2>2 DEF Crash
  <2> QED
    BY <2>3
<1> QED
  BY <1>3, <1>4, <1>5 DEF LedgerInv

(* So is a denial whose removals fail.                                      *)
LEMMA RemoveFailsKeeps ==
    ASSUME TypeOK, LedgerInv, NEW r \in Requests, RemoveFails(r)
    PROVE  LedgerInv'
<1>1. /\ request'[r].stage = "error"
      /\ \A q \in Requests : q # r => request'[q] = request[q]
  <2>1. request' = [request EXCEPT ![r] = [NoRequest EXCEPT !.stage = "error"]]
    BY DEF RemoveFails, Answer
  <2>2. [NoRequest EXCEPT !.stage = "error"].stage = "error"
    BY Blanks DEF RequestRecords
  <2> QED
    BY <2>1, <2>2 DEF TypeOK
<1>2. UNCHANGED <<human, decided>> /\ interrupted' = interrupted \cup {Target(r)}
  BY DEF RemoveFails
<1>3. RecordsAreDecisions'
  BY <1>2 DEF LedgerInv, RecordsAreDecisions
<1>4. WritesWhatWasShown' /\ ApprovesOnApproved' /\ OneTurn'
  BY <1>1, <1>2 DEF LedgerInv, WritesWhatWasShown, ApprovesOnApproved, OneTurn, InTurn,
     Shown, Target
<1>5. DenialReachesDownstream'
  <2> SUFFICES ASSUME NEW a \in Artifacts, NEW d \in Artifacts, a \in Ancestors(d),
                      human[a].verdict = "red", a \notin interrupted, a # request[r].artifact,
                      human[d].verdict = "green"
               PROVE  \E q \in Requests : /\ request'[q].stage = "removing"
                                          /\ request'[q].artifact = a /\ d \in request'[q].pending
    BY <1>2 DEF DenialReachesDownstream, Target
  <2>1. PICK q \in Requests : /\ request[q].stage = "removing"
                              /\ request[q].artifact = a /\ d \in request[q].pending
    BY DEF LedgerInv, DenialReachesDownstream, Target
  <2>2. q # r
    BY <2>1
  <2> QED
    BY <1>1, <2>1, <2>2
<1> QED
  BY <1>3, <1>4, <1>5 DEF LedgerInv

LEMMA InitKeeps == Init => LedgerInv
<1> SUFFICES ASSUME Init PROVE LedgerInv
  OBVIOUS
<1>1. \A r \in Requests : request[r].stage = "none"
  BY DEF Init, NoRequest
<1>2. \A a \in Artifacts : human[a].verdict \in {"green", "none"} /\ decided = human
  BY DEF Init, NoRecord
<1>3. RecordsAreDecisions /\ DenialReachesDownstream
  BY <1>2 DEF RecordsAreDecisions, DenialReachesDownstream
<1>4. WritesWhatWasShown /\ ApprovesOnApproved /\ OneTurn
  BY <1>1 DEF WritesWhatWasShown, ApprovesOnApproved, OneTurn, InTurn
<1> QED
  BY <1>3, <1>4 DEF LedgerInv

LEMMA StepKeeps == TypeOK /\ LedgerInv /\ [Next]_vars => LedgerInv'
<1> SUFFICES ASSUME TypeOK, LedgerInv, [Next]_vars PROVE LedgerInv'
  OBVIOUS
<1>1. CASE UNCHANGED vars
  BY <1>1, Undisturbed DEF vars, ledger, daemon, history
<1>2. ASSUME NEW a \in Artifacts, NEW t \in Contents, Edit(a, t) PROVE LedgerInv'
  BY <1>2, Undisturbed DEF Edit, ledger, daemon
<1>3. ASSUME NEW v \in Reviewers, NEW a \in Artifacts, StartReview(v, a) PROVE LedgerInv'
  BY <1>3, Undisturbed DEF StartReview, ledger, daemon, history
<1>4. ASSUME NEW v \in Reviewers, SubmitReviewVerdict(v) \/ EndReview(v) PROVE LedgerInv'
  BY <1>4, Undisturbed DEF SubmitReviewVerdict, EndReview, SetAgentReviewVerdict,
     ledger, daemon, history
<1>5. ASSUME NEW n \in Nonces, NEW a \in Artifacts, MintSession(n, a) PROVE LedgerInv'
  BY <1>5, Undisturbed DEF MintSession, ledger, history
<1>6. ASSUME NEW n \in Nonces, ExpireSession(n) PROVE LedgerInv'
  BY <1>6, Undisturbed DEF ExpireSession, ledger, history
<1>7. CASE BreakStaleLock
  BY <1>7, Undisturbed DEF BreakStaleLock, daemon, history
<1>8. ASSUME NEW r \in Requests, Handle(r) PROVE LedgerInv'
  BY <1>8, AwaitKeeps, CheckKeeps, WriteKeeps, RemoveKeeps, RemoveFailsKeeps, FinishKeeps
  DEF Handle
<1> QED
  BY <1>1, <1>2, <1>3, <1>4, <1>5, <1>6, <1>7, <1>8, ReceiveKeeps, CrashKeeps DEF Next

-----------------------------------------------------------------------------
(* The inductive invariant holds in every state.                            *)
THEOREM ApprovalInvariance == Spec => []ApprovalInv
<1>1. Init => ApprovalInv
  BY InitTyped, InitKeeps DEF ApprovalInv
<1>2. ApprovalInv /\ [Next]_vars => ApprovalInv'
  BY StepTyped, StepKeeps DEF ApprovalInv
<1> QED
  BY <1>1, <1>2, PTL DEF Spec

(* Every variable keeps its shape.                                          *)
THEOREM ApprovalsTypeCorrect == Spec => []TypeOK
<1>1. ApprovalInv => TypeOK
  BY DEF ApprovalInv
<1> QED
  BY <1>1, ApprovalInvariance, PTL

(* isApprovedForExecution answers true only for a plan each of whose        *)
(* artifacts was approved, last of all, in the text it has now.             *)
THEOREM OpenGateMeansDecided == Spec => []OpenGateWasDecided
<1>1. ApprovalInv => OpenGateWasDecided
  <2> SUFFICES ASSUME ApprovalInv, IsApprovedForExecution, NEW a \in Artifacts
               PROVE  decided[a] = [text |-> text[a], verdict |-> "green"]
    BY DEF OpenGateWasDecided
  <2>1. human[a].verdict = "green" /\ human[a].text = text[a]
    BY DEF IsApprovedForExecution, IsArtifactApproved, OwnApproval, Current
  <2>2. decided[a] = human[a]
    BY <2>1 DEF ApprovalInv, LedgerInv, RecordsAreDecisions
  <2>3. human[a] \in HumanRecords
    BY DEF ApprovalInv, TypeOK
  <2>4. human[a] = [text |-> human[a].text, verdict |-> human[a].verdict]
    BY <2>3 DEF HumanRecords
  <2> QED
    BY <2>1, <2>2, <2>4
<1> QED
  BY <1>1, ApprovalInvariance, PTL

(* A denial leaves no approval downstream, however decisions, edits,        *)
(* reviews and crashes interleave, unless the removals were cut short.      *)
THEOREM DenialsReachDownstream == Spec => []DenialReachesDownstream
<1>1. ApprovalInv => DenialReachesDownstream
  BY DEF ApprovalInv, LedgerInv
<1> QED
  BY <1>1, ApprovalInvariance, PTL

(* The approval of tasks is the approval of the plan.                       *)
LEMMA TasksAreLast == TasksApproved => IsApprovedForExecution
<1> SUFFICES ASSUME TasksApproved, NEW a \in Artifacts, NEW b \in {a} \cup Ancestors(a)
             PROVE  OwnApproval(b)
  BY DEF IsApprovedForExecution, IsArtifactApproved
<1>1. /\ Dependencies["proposal"] = {} /\ Dependencies["design"] = {"proposal"}
      /\ Dependencies["specs"] = {"proposal"} /\ Dependencies["tasks"] = {"design", "specs"}
  BY DEF Dependencies
<1>2. Artifacts \subseteq {"tasks"} \cup Ancestors("tasks")
  BY <1>1, ArtifactsAssumption DEF TasksApproved, Ancestors, Upstream
<1>3. b \in Artifacts
  BY GraphShape
<1> QED
  BY <1>2, <1>3 DEF TasksApproved, IsArtifactApproved

(* The host is told that the plan is ready only when it is approved.        *)
THEOREM ReadinessIsApproved == Spec => ReadyWhenApproved
<1>1. ASSUME TypeOK, [Next]_vars, NEW i \in DOMAIN actions' \ DOMAIN actions, actions'[i].ready
      PROVE  IsApprovedForExecution
  <2>1. PICK r \in Requests : PostDecision(r)
    <3>1. actions' # actions
      BY <1>1
    <3> QED
      BY <1>1, <3>1 DEF Next, Handle, vars, Edit, StartReview, SubmitReviewVerdict, EndReview,
         MintSession, ExpireSession, ReceiveDecision, ReadBody, Validated, CheckDecision,
         WriteDecision, WriteFails, RemoveDownstream, RemoveFails, FinishRemoving, Crash, BreakStaleLock
  <2>2. actions' = Append(actions, ActionOf(r))
    BY <1>1, <2>1 DEF PostDecision
  <2>3. actions \in Seq(ActionRecords)
    BY <1>1 DEF TypeOK
  <2>4. actions'[i] = ActionOf(r)
    <3>1. i = Len(actions) + 1
      BY <1>1, <2>2, <2>3
    <3> QED
      BY <2>2, <2>3, <3>1
  <2> QED
    BY <1>1, <2>4, TasksAreLast DEF ActionOf
<1>2. TypeOK /\ [Next]_vars =>
        [\A i \in DOMAIN actions' \ DOMAIN actions :
           actions'[i].ready => IsApprovedForExecution]_vars
  BY <1>1
<1> QED
  BY <1>2, ApprovalsTypeCorrect, PTL DEF Spec, ReadyWhenApproved
=============================================================================
