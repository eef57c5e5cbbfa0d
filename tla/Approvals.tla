------------------------------ MODULE Approvals ------------------------------
(***************************************************************************)
(* The plan-approval ledger (src/src/engine/openspec-approvals.ts), the    *)
(* review surface of the dashboard daemon that writes it                   *)
(* (src/src/engine/review.ts, src/src/observability/server/                *)
(* review-wiring.ts) and the reviewers of the host that write the          *)
(* automated half (src/src/agents/tools.ts, src/src/engine/                *)
(* dispatch-end.ts).                                                       *)
(*                                                                         *)
(* Two processes share the records on disk: the daemon, one thread, whose  *)
(* decision handler awaits the request body and `openspec validate`, and   *)
(* the host, where reviewers run for minutes and planners (or the user)    *)
(* edit the artifacts at any moment.  A text stands for the bytes of an    *)
(* artifact and for their hash: two texts are equal when the hashes are.   *)
(***************************************************************************)
EXTENDS Naturals, Sequences, FiniteSets

CONSTANTS
    Artifacts,     \* the artifacts of the change, of the four in Dependencies
    Settled,       \* those whose approval is on disk when the daemon starts
    Texts,         \* the contents an artifact can have
    Missing,       \* no content: the file does not exist
    Nonces,        \* the review sessions that can be minted
    Requests,      \* the decision requests that can be sent
    Reviewers,     \* reviewer runs of the host; each bounds one run
    Reported,      \* the verdicts reviewers give
    MaxEdits,      \* bound on the edits of the artifacts
    MaxCrashes     \* bound on the deaths of the daemon

(* shared/openspec-artifacts.ts: the graph of the artifacts, and its order. *)
Dependencies == [proposal |-> {}, design |-> {"proposal"},
                 specs |-> {"proposal"}, tasks |-> {"design", "specs"}]

ArtifactOrder == [proposal |-> 0, design |-> 1, specs |-> 2, tasks |-> 3]

ASSUME ArtifactsAssumption ==
    /\ Artifacts # {} /\ Artifacts \subseteq {"proposal", "design", "specs", "tasks"}
    /\ "tasks" \in Artifacts => Artifacts \cap {"design", "specs"} # {}
    /\ Settled \subseteq Artifacts
    /\ \A a \in Settled : Dependencies[a] \cap Artifacts \subseteq Settled
    /\ Texts # {} /\ Missing \notin Texts /\ Nonces # {}
    /\ Reported \subseteq {"green", "yellow", "red"}
    /\ MaxEdits \in Nat /\ MaxCrashes \in Nat

Upstream(a) == Dependencies[a] \cap Artifacts

(* Every artifact a depends on, directly or through another: the graph has  *)
(* no path longer than two edges.                                           *)
Ancestors(a) == Upstream(a) \cup UNION {Upstream(u) : u \in Upstream(a)}

\* Mutant: only the artifacts directly below.
DownstreamDirect(a) == {d \in Artifacts : a \in Upstream(d)}

DownstreamOf(a) == {d \in Artifacts : a \in Ancestors(d)}

VARIABLES
    text,          \* the contents of the artifacts
    automated,     \* the automated-review record of each artifact
    human,         \* the human record of each artifact
    lock,          \* the .approval-state lock file
    session,       \* the review sessions of the daemon
    request,       \* the decision requests it handles
    reviewer,      \* the reviewer runs of the host
    actions,       \* dashboard-actions.jsonl: the decisions told to the host
    edits, crashes,  \* counters for the bounds
    decided,       \* history: the last decision persisted on each artifact
    outdated,      \* history: records older than a change of something upstream
    interrupted    \* history: denials that failed, or died, before the last removal

ledger  == <<automated, human, lock>>
daemon  == <<session, request>>
bounds  == <<edits, crashes>>
history == <<decided, outdated, interrupted>>
vars == <<text, ledger, daemon, reviewer, actions, bounds, history>>

Contents == Texts \cup {Missing}

Verdicts == {"green", "yellow", "red"}

Eligible == {"green", "yellow"}

NoRecord == [text |-> Missing, verdict |-> "none"]

-----------------------------------------------------------------------------
(* The reads of the ledger: a record counts while its hash is the hash of   *)
(* the artifact now.                                                        *)

Current(record, a) ==
    record.verdict # "none" /\ text[a] # Missing /\ record.text = text[a]

AgentReviewVerdict(a) ==
    IF Current(automated[a], a) THEN automated[a].verdict ELSE "none"

(* currentHumanRecord with verdict green: the artifact's own record, and    *)
(* those of all its ancestors, are green and current and have a current     *)
(* eligible automated review.                                               *)
OwnApproval(a) ==
    /\ human[a].verdict = "green" /\ Current(human[a], a)
    /\ AgentReviewVerdict(a) \in Eligible

IsArtifactApproved(a) == \A b \in {a} \cup Ancestors(a) : OwnApproval(b)

IsApprovedForExecution == \A a \in Artifacts : IsArtifactApproved(a)

TasksApproved == "tasks" \in Artifacts /\ IsArtifactApproved("tasks")

-----------------------------------------------------------------------------
(* Artifacts are written by planners of the host and by the user, under no  *)
(* lock.  Only the hash tells that they changed.                            *)

Edit(a, t) ==
    /\ edits < MaxEdits
    /\ t # text[a]
    /\ text' = [text EXCEPT ![a] = t]
    /\ edits' = edits + 1
    /\ outdated' = outdated \cup {d \in DownstreamOf(a) : human[d] # NoRecord}
    /\ UNCHANGED <<ledger, daemon, reviewer, actions, crashes, decided, interrupted>>

(* A reviewer run: it reads the artifact, reports with submit_review_verdict *)
(* (not at all, once or more often), and when the run ends the verdict found *)
(* in its answer, if any, is recorded again.  Each record takes the hash of  *)
(* the moment it is written, not of the text the reviewer has read.          *)

NoReview == [stage |-> "idle", artifact |-> CHOOSE a \in Artifacts : TRUE]

StartReview(v, a) ==
    /\ reviewer[v].stage = "idle" /\ text[a] # Missing
    /\ reviewer' = [reviewer EXCEPT ![v] = [stage |-> "reviewing", artifact |-> a]]
    /\ UNCHANGED <<text, ledger, daemon, actions, bounds, history>>

SetAgentReviewVerdict(v, verdict) ==
    LET a == reviewer[v].artifact IN
    /\ lock = "free" /\ text[a] # Missing
    /\ automated' = [automated EXCEPT ![a] = [text |-> text[a], verdict |-> verdict]]
    /\ UNCHANGED <<human, lock>>

SubmitReviewVerdict(v) ==
    /\ reviewer[v].stage = "reviewing"
    /\ \E verdict \in Reported : SetAgentReviewVerdict(v, verdict)
    /\ UNCHANGED <<text, daemon, reviewer, actions, bounds, history>>

EndReview(v) ==
    /\ reviewer[v].stage = "reviewing"
    /\ \/ \E verdict \in Reported : SetAgentReviewVerdict(v, verdict)
       \/ UNCHANGED ledger                 \* no verdict in the answer
    /\ reviewer' = [reviewer EXCEPT ![v] = [NoReview EXCEPT !.stage = "over"]]
    /\ UNCHANGED <<text, daemon, actions, bounds, history>>

-----------------------------------------------------------------------------
(* The daemon's review sessions and decision requests.  Its one thread is   *)
(* inside setArtifactApproval, or in what follows it in the same turn,      *)
(* while a request is in one of these stages; the awaits are the stages     *)
(* "body" and "validating".                                                 *)

InTurn == {"persisting", "writing", "removing", "posting"}

Idle == \A r \in Requests : request[r].stage \notin InTurn

Target(r) == request[r].artifact

Shown(r) == request[r].shown

Goto(r, stage) == request' = [request EXCEPT ![r].stage = stage]

NoRequest == [stage |-> "none", nonce |-> CHOOSE n \in Nonces : TRUE,
              artifact |-> CHOOSE a \in Artifacts : TRUE, shown |-> Missing,
              approve |-> FALSE, checked |-> Missing, pending |-> {}, validated |-> FALSE]

NoSession == [stage |-> "none", artifact |-> CHOOSE a \in Artifacts : TRUE,
              text |-> Missing]

Answer(r, status) == request' = [request EXCEPT ![r] = [NoRequest EXCEPT !.stage = status]]

MintSession(n, a) ==
    /\ Idle /\ session[n].stage = "none" /\ text[a] # Missing
    /\ session' = [session EXCEPT ![n] =
                     [stage |-> "open", artifact |-> a, text |-> text[a]]]
    /\ UNCHANGED <<text, ledger, request, reviewer, actions, bounds, history>>

(* The ten minutes are over, or newer sessions pushed this one out.         *)
ExpireSession(n) ==
    /\ session[n].stage = "open"
    /\ session' = [session EXCEPT ![n] = [NoSession EXCEPT !.stage = "expired"]]
    /\ UNCHANGED <<text, ledger, request, reviewer, actions, bounds, history>>

(* A decision arrives: the session must be open and its artifact unchanged. *)
(* The handler keeps the session it has found.                              *)
ReceiveDecision(r, n, approve) ==
    /\ Idle /\ request[r].stage = "none"
    /\ session[n].stage = "open" /\ session[n].text = text[session[n].artifact]
    /\ request' = [request EXCEPT ![r] =
         [NoRequest EXCEPT !.stage = "body", !.nonce = n, !.approve = approve,
                           !.artifact = session[n].artifact, !.shown = session[n].text]]
    /\ UNCHANGED <<text, ledger, session, reviewer, actions, bounds, history>>

(* The body has been read.  A stale text or a bad body is refused; so is an *)
(* approval without a current eligible review.  An approval that could open *)
(* the gate waits for `openspec validate` first.                            *)
ReadBody(r) ==
    /\ Idle /\ request[r].stage = "body"
    /\ \/ Answer(r, "error")
       \/ /\ Shown(r) = text[Target(r)]
          /\ ~request[r].approve
          /\ Goto(r, "persisting")
       \/ /\ Shown(r) = text[Target(r)]
          /\ request[r].approve
          /\ AgentReviewVerdict(Target(r)) \in Eligible
          /\ Goto(r, IF Target(r) = "tasks" \/ TasksApproved
                       THEN "validating" ELSE "persisting")
    /\ UNCHANGED <<text, ledger, session, reviewer, actions, bounds, history>>

(* The validation answers, whatever the answer, or throws: timed out,       *)
(* cancelled with the request, or not available.                            *)
Validated(r) ==
    /\ Idle /\ request[r].stage = "validating"
    /\ \/ Answer(r, "error")
       \/ \E passed \in BOOLEAN :
            request' = [request EXCEPT ![r].stage = "persisting", ![r].validated = passed]
    /\ UNCHANGED <<text, ledger, session, reviewer, actions, bounds, history>>

(* setArtifactApproval, with the lock: the artifact must still be the one   *)
(* the session was minted for, and an approval needs a current eligible     *)
(* review and the approval of everything directly upstream.                 *)

\* Mutant: the hash of the session is not compared.
MayDecideAnyText(r) ==
    LET a == Target(r) IN
    /\ text[a] # Missing
    /\ request[r].approve =>
         /\ AgentReviewVerdict(a) \in Eligible
         /\ \A u \in Upstream(a) : IsArtifactApproved(u)

MayDecide(r) ==
    LET a == Target(r) IN
    /\ text[a] # Missing /\ text[a] = Shown(r)
    /\ request[r].approve =>
         /\ AgentReviewVerdict(a) \in Eligible
         /\ \A u \in Upstream(a) : IsArtifactApproved(u)

CheckDecision(r) ==
    /\ request[r].stage = "persisting"
    /\ \/ /\ lock = "free" /\ MayDecide(r)
          /\ lock' = "daemon"
          /\ request' = [request EXCEPT ![r].stage = "writing",
                                        ![r].checked = text[Target(r)]]
       \/ /\ lock = "free" => ~MayDecide(r)       \* refused, or no lock in time
          /\ Answer(r, "error")
          /\ UNCHANGED lock
    /\ UNCHANGED <<text, automated, human, session, reviewer, actions, bounds, history>>

\* Mutant: the human record repeats the verdict of the review.
VerdictOfReview(r) ==
    IF request[r].approve THEN AgentReviewVerdict(Target(r)) ELSE "red"

VerdictOf(r) == IF request[r].approve THEN "green" ELSE "red"

(* The record is written with the hash taken by the check.  A denial goes   *)
(* on to remove the human records downstream, still under the lock.         *)
WriteDecision(r) ==
    LET a == Target(r)
        approve == request[r].approve
    IN
    /\ request[r].stage = "writing"
    /\ human' = [human EXCEPT ![a] = [text |-> request[r].checked,
                                         verdict |-> VerdictOf(r)]]
    /\ request' = [request EXCEPT
                     ![r].stage = IF approve THEN "posting" ELSE "removing",
                     ![r].pending = IF approve THEN {} ELSE DownstreamOf(a)]
    /\ lock' = IF approve THEN "free" ELSE lock
    /\ decided' = [decided EXCEPT ![a] = [text |-> Shown(r), verdict |-> VerdictOf(r)]]
    /\ outdated' = outdated \ {a}
    /\ interrupted' = interrupted \ {a}
    /\ UNCHANGED <<text, automated, session, reviewer, actions, bounds>>

(* The disk refuses the record: nothing was written, the lock is given back. *)
WriteFails(r) ==
    /\ request[r].stage = "writing"
    /\ Answer(r, "error")
    /\ lock' = "free"
    /\ UNCHANGED <<text, automated, human, session, reviewer, actions, bounds, history>>

First(S) == CHOOSE d \in S : \A e \in S : ArtifactOrder[d] <= ArtifactOrder[e]

RemoveDownstream(r) ==
    LET d == First(request[r].pending) IN
    /\ request[r].stage = "removing" /\ request[r].pending # {}
    /\ human' = [human EXCEPT ![d] = NoRecord]
    /\ outdated' = outdated \ {d}
    /\ request' = [request EXCEPT ![r].pending = @ \ {d}]
    /\ UNCHANGED <<text, automated, lock, session, reviewer, actions, bounds,
                   decided, interrupted>>

FinishRemoving(r) ==
    /\ request[r].stage = "removing" /\ request[r].pending = {}
    /\ Goto(r, "posting")
    /\ lock' = "free"
    /\ UNCHANGED <<text, automated, human, session, reviewer, actions, bounds, history>>

(* A record cannot be unlinked: the denial is in force, the records below   *)
(* that were still to go stay, and the browser is told of an error.         *)
RemoveFails(r) ==
    /\ request[r].stage = "removing" /\ request[r].pending # {}
    /\ Answer(r, "error")
    /\ lock' = "free"
    /\ interrupted' = interrupted \cup {Target(r)}
    /\ UNCHANGED <<text, automated, human, session, reviewer, actions, bounds,
                   decided, outdated>>

(* What the host is told: the next artifact that can be written, and        *)
(* whether the plan is ready to run.                                        *)
NextAuthorable ==
    LET open == {a \in Artifacts : /\ text[a] = Missing
                                   /\ \A u \in Upstream(a) : IsArtifactApproved(u)}
    IN IF open = {} THEN "none" ELSE First(open)

\* Mutant: the awaited validation is taken for readiness.
ActionOfStaleValidation(r) ==
    [type |-> IF request[r].approve THEN "approved" ELSE "denied",
     artifact |-> Target(r),
     next |-> IF request[r].approve THEN NextAuthorable ELSE "none",
     ready |-> request[r].approve /\ request[r].validated]

ActionOf(r) ==
    [type |-> IF request[r].approve THEN "approved" ELSE "denied",
     artifact |-> Target(r),
     next |-> IF request[r].approve THEN NextAuthorable ELSE "none",
     ready |-> /\ request[r].approve /\ TasksApproved
               /\ request[r].validated /\ text["tasks"] # Missing]

(* The decision goes to the host's action file, and the session is used up. *)
(* Writing the history row or the action can fail after the approval is in  *)
(* force; then the answer is an error and the session stays open.  (The row *)
(* in plan_verdicts is shown, and never read back as authority.)            *)
PostDecision(r) ==
    /\ request[r].stage = "posting"
    /\ \/ /\ \/ actions' = Append(actions, ActionOf(r))
             \/ UNCHANGED actions          \* no session of the project is known
          /\ session' = [session EXCEPT ![request[r].nonce] =
                           [NoSession EXCEPT !.stage = "used"]]
          /\ Answer(r, "ok")
       \/ /\ Answer(r, "error")
          /\ UNCHANGED <<actions, session>>
    /\ UNCHANGED <<text, ledger, reviewer, bounds, history>>

-----------------------------------------------------------------------------
(* The daemon dies and is started again: sessions and requests were in its  *)
(* memory, a lock it held stays on disk until it is 30 seconds old.         *)
Crash ==
    /\ crashes < MaxCrashes
    /\ crashes' = crashes + 1
    /\ session' = [n \in Nonces |-> IF session[n].stage = "open"
                                    THEN [NoSession EXCEPT !.stage = "expired"]
                                    ELSE session[n]]
    /\ request' = [r \in Requests |-> IF request[r].stage \in {"none", "ok"} THEN request[r]
                                      ELSE [NoRequest EXCEPT !.stage = "error"]]
    /\ lock' = IF lock = "daemon" THEN "dead" ELSE lock
    /\ interrupted' = interrupted \cup
         {Target(r) : r \in {q \in Requests : /\ request[q].stage = "removing"
                                              /\ request[q].pending # {}}}
    /\ UNCHANGED <<text, automated, human, reviewer, actions, edits, decided, outdated>>

BreakStaleLock ==
    /\ lock = "dead" /\ lock' = "free"
    /\ UNCHANGED <<text, automated, human, daemon, reviewer, actions, bounds, history>>

-----------------------------------------------------------------------------
(* The change was written before the daemon started; of the settled         *)
(* artifacts the reviews and approvals are on disk.                         *)

FirstText == CHOOSE t \in Texts : TRUE

Init ==
    /\ text = [a \in Artifacts |-> FirstText]
    /\ human = [a \in Artifacts |->
         IF a \in Settled THEN [text |-> FirstText, verdict |-> "green"] ELSE NoRecord]
    /\ automated = human /\ decided = human
    /\ lock = "free"
    /\ session = [n \in Nonces |-> NoSession]
    /\ request = [r \in Requests |-> NoRequest]
    /\ reviewer = [v \in Reviewers |-> NoReview]
    /\ actions = <<>>
    /\ edits = 0 /\ crashes = 0
    /\ outdated = {} /\ interrupted = {}

Handle(r) ==
    \/ ReadBody(r) \/ Validated(r) \/ CheckDecision(r) \/ WriteDecision(r)
    \/ WriteFails(r) \/ RemoveDownstream(r) \/ RemoveFails(r) \/ FinishRemoving(r)
    \/ PostDecision(r)

Next ==
    \/ \E a \in Artifacts, t \in Contents : Edit(a, t)
    \/ \E v \in Reviewers, a \in Artifacts : StartReview(v, a)
    \/ \E v \in Reviewers : SubmitReviewVerdict(v) \/ EndReview(v)
    \/ \E n \in Nonces, a \in Artifacts : MintSession(n, a)
    \/ \E n \in Nonces : ExpireSession(n)
    \/ \E r \in Requests, n \in Nonces, approve \in BOOLEAN : ReceiveDecision(r, n, approve)
    \/ \E r \in Requests : Handle(r)
    \/ Crash \/ BreakStaleLock

Spec == Init /\ [][Next]_vars

-----------------------------------------------------------------------------
(* Properties.                                                             *)

AutomatedRecords == [text : Contents, verdict : Verdicts \cup {"none"}]

HumanRecords == [text : Contents, verdict : {"green", "red", "none"}]

SessionRecords ==
    [stage : {"none", "open", "used", "expired"}, artifact : Artifacts, text : Contents]

Stages == {"none", "body", "validating", "ok", "error"} \cup InTurn

RequestRecords ==
    [stage : Stages, nonce : Nonces, artifact : Artifacts, shown : Contents,
     approve : BOOLEAN, checked : Contents, pending : SUBSET Artifacts, validated : BOOLEAN]

ReviewRecords == [stage : {"idle", "reviewing", "over"}, artifact : Artifacts]

ActionRecords ==
    [type : {"approved", "denied"}, artifact : Artifacts,
     next : Artifacts \cup {"none"}, ready : BOOLEAN]

(* Every variable keeps the shape its declaration promises; in particular   *)
(* a human record is never yellow, as reviews are.                          *)
TypeOK ==
    /\ text \in [Artifacts -> Contents]
    /\ automated \in [Artifacts -> AutomatedRecords]
    /\ human \in [Artifacts -> HumanRecords]
    /\ decided \in [Artifacts -> HumanRecords]
    /\ lock \in {"free", "daemon", "dead"}
    /\ session \in [Nonces -> SessionRecords]
    /\ request \in [Requests -> RequestRecords]
    /\ reviewer \in [Reviewers -> ReviewRecords]
    /\ actions \in Seq(ActionRecords)
    /\ edits \in Nat /\ crashes \in Nat
    /\ outdated \subseteq Artifacts /\ interrupted \subseteq Artifacts

(* The execution gate is open only when, for every artifact, the last       *)
(* decision a human made on it was an approval, made in a session that      *)
(* showed exactly the text the artifact has now: no sequence of edits,      *)
(* denials, overlapping requests, crashes and reviews opens it otherwise.   *)
OpenGateWasDecided ==
    IsApprovedForExecution =>
        \A a \in Artifacts : decided[a] = [text |-> text[a], verdict |-> "green"]

(* A denial reaches everything downstream: once the denying request is done *)
(* no artifact that depends on the denied one keeps an approval, and none   *)
(* gets one while the denial stands; the exception is a removal that fails, *)
(* or a daemon that dies between the denial and the last removal.           *)
DenialReachesDownstream ==
    \A a \in Artifacts :
        /\ human[a].verdict = "red" /\ a \notin interrupted
        => \A d \in Artifacts : a \in Ancestors(d) =>
             \/ human[d].verdict # "green"
             \/ \E r \in Requests : /\ request[r].stage = "removing"
                                    /\ Target(r) = a /\ d \in request[r].pending

(* When the host is told that the plan is ready, every artifact of it is    *)
(* approved at that moment, although the message looks at tasks only and    *)
(* the validation was awaited before.                                       *)
ReadyWhenApproved ==
    [][\A i \in DOMAIN actions' \ DOMAIN actions :
         actions'[i].ready => IsApprovedForExecution]_vars

(* A change of an artifact also invalidates the approvals downstream of it: *)
(* they do not come back into force without a new decision.                 *)
ChangeInvalidatesDownstream == IsApprovedForExecution => outdated = {}
=============================================================================
