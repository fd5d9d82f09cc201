---------------------------- MODULE DecisionCards ----------------------------
(***************************************************************************)
(* The cards that tell approvers of one access request, and those that     *)
(* tell the people a comment mentions: src/api/services/docsNotify.ts,     *)
(* docsDecisionCardSync.ts and docAccessNotifyCardRepo.ts. The request is  *)
(* decided as in AccessRequest; the cards themselves are octo-server's     *)
(* (external).                                                             *)
(*                                                                         *)
(* Submitting starts one task, deciding another; nobody waits for either   *)
(* and neither is repeated. Posts of one task run side by side.            *)
(***************************************************************************)
EXTENDS Integers, FiniteSets

CONSTANTS
    People,         \* who may approve, be mentioned, or be neither
    Owner,          \* of the document, one of them
    Requester,      \* one of them
    MaxFaults,      \* lost answers, failed posts and statements, crashes
    MentionCap,     \* MAX_MENTION_RECIPIENTS
    Concurrency     \* NOTIFY_CONCURRENCY

ASSUME CardAssumption ==
    /\ IsFiniteSet(People) /\ {Owner, Requester} \subseteq People
    /\ MaxFaults \in Nat /\ MentionCap \in Nat \ {0} /\ Concurrency \in Nat \ {0}

VARIABLES
    deciders,   \* members with role admin
    verdict,    \* "pending", "approved" or "denied"
    shown,      \* shown[a]: the cards in a's chat, each by what it says
    ledger,     \* ledger[a]: the status of a's row, "none" when there is none
    notify,     \* the task of the submission: [pc, todo, found], and whether it wrote the
                \* ledger after the other task had read it (history)
    sync,       \* the task of the decision: [pc, by, handled, listed, at]
    cardFaults,
    mention     \* the task of a comment: [pc, open, readers, todo, flight, told]

cardVars == <<deciders, verdict, shown, ledger, notify, sync, cardFaults, mention>>

Fault == cardFaults < MaxFaults /\ cardFaults' = cardFaults + 1
NoFault == UNCHANGED cardFaults

\* resolveApprovers.
Approvers == ({Owner} \cup deciders) \ {Requester}

CardsInit ==
    /\ deciders \in SUBSET (People \ {Owner})
    /\ verdict = "pending"
    /\ shown = [a \in People |-> {}]
    /\ ledger = [a \in People |-> "none"]
    /\ notify = [pc |-> "posting", todo |-> Approvers, found |-> {}, late |-> FALSE]
    /\ sync = [pc |-> "idle", by |-> Owner, handled |-> FALSE, listed |-> {}, at |-> [a \in People |-> "none"]]
    /\ cardFaults = 0
    /\ mention = [pc |-> "idle", open |-> FALSE, readers |-> {}, todo |-> {}, flight |-> {}, told |-> {}]

-----------------------------------------------------------------------------
(* notifyDocAccessRequested                                                *)

\* postNotify: the card arrives with its place, as plain text without one, or unheard of
\* (an answer lost or late); or it does not.
PostCard(a) ==
    /\ notify.pc = "posting" /\ a \in notify.todo
    /\ \/ /\ shown' = [shown EXCEPT ![a] = @ \cup {"buttons"}]
          /\ notify' = [notify EXCEPT !.todo = @ \ {a}, !.found = @ \cup {a}]
          /\ NoFault
       \/ /\ shown' = [shown EXCEPT ![a] = @ \cup {"text"}]
          /\ notify' = [notify EXCEPT !.todo = @ \ {a}]
          /\ NoFault
       \/ /\ Fault
          /\ \E arrived \in {"buttons", "text"} :
                shown' \in {shown, [shown EXCEPT ![a] = @ \cup {arrived}]}
          /\ notify' = [notify EXCEPT !.todo = @ \ {a}]
    /\ UNCHANGED <<deciders, verdict, ledger, sync, mention>>

\* docAccessNotifyCardRepo.record: one statement for all.
Record ==
    /\ notify.pc = "posting" /\ notify.todo = {}
    /\ notify' = [notify EXCEPT !.pc = "done", !.late = sync.pc \notin {"idle", "listing"}]
    /\ \/ ledger' = [a \in People |-> IF a \in notify.found THEN "active" ELSE ledger[a]] /\ NoFault
       \/ Fault /\ notify.found # {} /\ UNCHANGED ledger
    /\ UNCHANGED <<deciders, verdict, shown, sync, mention>>

-----------------------------------------------------------------------------
(* The decision, by a click on a card or from the panel of members; then   *)
(* syncDecisionCards.                                                      *)

\* decide() moves a pending row once; what a later one gets is in AccessRequest.
Decide(by, handled, outcome) ==
    /\ verdict = "pending"
    /\ by \in {Owner} \cup deciders
    /\ handled => "buttons" \in shown[by]
    /\ verdict' = outcome
    /\ sync' = [sync EXCEPT !.pc = "listing", !.by = by, !.handled = handled]
    /\ UNCHANGED <<deciders, shown, ledger, notify, cardFaults, mention>>

\* octo-server's finalizer edits the card that was clicked (external).
Finalize ==
    /\ sync.handled /\ "buttons" \in shown[sync.by]
    /\ shown' = [shown EXCEPT ![sync.by] = (@ \ {"buttons"}) \cup {verdict}]
    /\ UNCHANGED <<deciders, verdict, ledger, notify, sync, cardFaults, mention>>

\* Mutant of Siblings: the decider's own card is left alone on both paths.
SiblingsNeverDecider(rows) == rows \ {sync.by}

Siblings(rows) == IF sync.handled THEN rows \ {sync.by} ELSE rows

ListCards ==
    /\ sync.pc = "listing"
    /\ \/ /\ NoFault
          /\ LET cards == Siblings({a \in People : ledger[a] # "none"})
             IN  sync' = [sync EXCEPT !.pc = IF cards = {} THEN "done" ELSE "editing",
                                      !.listed = cards,
                                      !.at = [a \in People |-> IF a \in cards THEN "edit" ELSE "none"]]
       \/ Fault /\ sync' = [sync EXCEPT !.pc = "done"]
    /\ UNCHANGED <<deciders, verdict, shown, ledger, notify, mention>>

Goes(a, to) == sync' = [sync EXCEPT !.at[a] = to]

\* mutateOneCard: edited, edited with the answer lost, or not edited.
Mutate(a) ==
    /\ sync.pc = "editing" /\ sync.at[a] = "edit"
    /\ LET edited == [shown EXCEPT ![a] = (@ \ {"buttons"}) \cup {verdict}]
       IN  \/ NoFault /\ shown' = edited /\ Goes(a, "mark")
           \/ Fault /\ shown' \in {shown, edited} /\ Goes(a, "renotify")
    /\ UNCHANGED <<deciders, verdict, ledger, notify, mention>>

\* reNotifyTerminal: a new card beside the old one, whose buttons stay.
Renotify(a) ==
    /\ sync.pc = "editing" /\ sync.at[a] = "renotify"
    /\ Goes(a, "done")
    /\ \/ NoFault /\ shown' = [shown EXCEPT ![a] = @ \cup {verdict}]
       \/ Fault /\ UNCHANGED shown
    /\ UNCHANGED <<deciders, verdict, ledger, notify, mention>>

\* markTerminalized
Mark(a) ==
    /\ sync.pc = "editing" /\ sync.at[a] = "mark"
    /\ Goes(a, "done")
    /\ \/ NoFault /\ ledger' = [ledger EXCEPT ![a] = "terminalized"]
       \/ Fault /\ UNCHANGED ledger
    /\ UNCHANGED <<deciders, verdict, shown, notify, mention>>

\* A restart takes whatever task is running with it.
CardCrash ==
    /\ Fault
    /\ notify.pc = "posting" \/ sync.pc \in {"listing", "editing"}
    /\ notify' = [notify EXCEPT !.pc = "done"]
    /\ sync' = [sync EXCEPT !.pc = IF @ = "idle" THEN "idle" ELSE "done"]
    /\ UNCHANGED <<deciders, verdict, shown, ledger, mention>>

\* An admin is added or removed while the tasks run.
ChangeAdmins(a) ==
    /\ a # Owner
    /\ deciders' = IF a \in deciders THEN deciders \ {a} ELSE deciders \cup {a}
    /\ notify.pc = "posting" /\ sync.pc = "idle"
    /\ UNCHANGED <<verdict, shown, ledger, notify, sync, cardFaults, mention>>

-----------------------------------------------------------------------------
(* notifyDocMentioned: who is mentioned in a comment of `author`, a        *)
(* document shared in the space (open) or with its members.                *)

\* Mutant of MentionTargets: mentions are not checked against the members.
MentionTargetsAll(open, readers, named, author) == {named \ {author}}

\* filterMentionRecipientsByReadAccess, then the cap (the first of the comment's).
MentionTargets(open, readers, named, author) ==
    LET allowed == (named \ {author}) \cap (IF open THEN People ELSE readers \cup {Owner})
    IN  IF Cardinality(allowed) <= MentionCap THEN {allowed}
        ELSE {s \in SUBSET allowed : Cardinality(s) = MentionCap}

Comment(author, named, readers, open) ==
    /\ mention.pc = "idle"
    /\ \E targets \in MentionTargets(open, readers, named, author) :
        mention' = [pc |-> "posting", open |-> open, readers |-> readers \cup {Owner},
                    todo |-> targets, flight |-> {}, told |-> {}]
    /\ UNCHANGED <<deciders, verdict, shown, ledger, notify, sync, cardFaults>>

\* Mutant of WorkerFree: every post starts at once.
WorkerFreeAlways == TRUE

WorkerFree == Cardinality(mention.flight) < Concurrency

\* mapWithConcurrency: a worker takes the next recipient, and another when that is done.
TakeMention(a) ==
    /\ mention.pc = "posting" /\ a \in mention.todo /\ WorkerFree
    /\ mention' = [mention EXCEPT !.todo = @ \ {a}, !.flight = @ \cup {a}]
    /\ UNCHANGED <<deciders, verdict, shown, ledger, notify, sync, cardFaults>>

EndMention(a) ==
    /\ a \in mention.flight
    /\ mention' = [mention EXCEPT !.flight = @ \ {a}, !.told = @ \cup {a}]
    /\ UNCHANGED <<deciders, verdict, shown, ledger, notify, sync, cardFaults>>

CardsNext ==
    \/ \E a \in People : PostCard(a) \/ Mutate(a) \/ Renotify(a) \/ Mark(a) \/ ChangeAdmins(a)
    \/ \E by \in People, handled \in BOOLEAN, outcome \in {"approved", "denied"} : Decide(by, handled, outcome)
    \/ Record \/ Finalize \/ ListCards \/ CardCrash

MentionsNext ==
    \/ \E a, b \in People, named, readers \in SUBSET People, open \in BOOLEAN : Comment(a, named, readers, open)
    \/ \E a \in People : TakeMention(a) \/ EndMention(a)

CardsSpec == CardsInit /\ [][CardsNext \/ MentionsNext]_cardVars

-----------------------------------------------------------------------------
Terminal == {"approved", "denied"}
SyncOver == sync.pc = "done" \/ (sync.pc = "editing" /\ \A a \in People : sync.at[a] \in {"none", "done"})
CardsAtRest == notify.pc = "done" /\ SyncOver

(* No card tells an outcome the request does not have; a row that says its *)
(* card was edited is right; and when all is done without a fault, nobody  *)
(* whose card was listed has buttons, and every card of the ledger was     *)
(* listed, but the one that was clicked, and all of them when the decision *)
(* overtook the writing of the ledger (docsDecisionCardSync.ts:14-27).     *)
CardsTellTheOutcome ==
    /\ \A a \in People : shown[a] \cap Terminal \subseteq {verdict}
    /\ \A a \in People : ledger[a] = "terminalized" => verdict \in shown[a] /\ "buttons" \notin shown[a]
    /\ CardsAtRest /\ cardFaults = 0 => \A a \in People :
          /\ a \in sync.listed => "buttons" \notin shown[a] /\ verdict \in shown[a]
          /\ ledger[a] = "active" => notify.late \/ (sync.handled /\ a = sync.by)

(* Only one who can read the document is told of a comment on it, at most  *)
(* the cap of them and a few at a time (docsNotify.ts:181-225).            *)
MentionsReach ==
    LET reached == mention.todo \cup mention.flight \cup mention.told
    IN  /\ mention.open \/ reached \subseteq mention.readers
        /\ Cardinality(reached) <= MentionCap
        /\ Cardinality(mention.flight) <= Concurrency
=============================================================================
