---------------------------- MODULE MobileActions ----------------------------
(***************************************************************************)
(* A command the user gives on the phone, from the tap to the provider and *)
(* back: PendingActionTracker and performCommand of the Android            *)
(* repository, the upload and submission of kaleido-core product.rs, the   *)
(* idempotent admission at the host (store.rs) and what becomes of the     *)
(* command there.  Any answer may be lost with the connection; the user    *)
(* may edit the draft, tap again and answer an attention item again.       *)
(* Two slots: "prompt" sends the draft, "attention" answers the one item.  *)
(***************************************************************************)
EXTENDS Integers, Sequences, FiniteSets

CONSTANTS Texts,       \* what the user may type
          Slots,       \* subset of {"prompt", "attention"}
          MaxKeys,     \* bound on create_action_id
          Lossy,       \* answers may be lost
          Refusing,    \* admission may refuse a command
          Failing      \* the adapter may fail to deliver it

VARIABLES
    draft,     \* AppUiState.draft
    actions,   \* PendingActionTracker.actions
    call,      \* the blocking call of the lane, or NoCall
    admitted,  \* the host's outbox per key; 0 is the key of another device
    given,     \* number of times the provider was given each payload
    attention, \* state of the item at the host: "open" or "closed"
    inbox,     \* whether the phone's inbox lists the item
    keys,      \* keys created
    meant,     \* history: how often the user meant to send each payload
    unsure     \* history: payloads whose last attempt ended without an answer

vars == <<draft, actions, call, admitted, given, attention, inbox, keys, meant, unsure>>

None == "none"
NoAction == [sig |-> None, key |-> 0, state |-> None]
NoCall == [slot |-> None, sig |-> None, key |-> 0, pc |-> "idle", ack |-> None]
Reply == "reply"                      \* the payload of the attention slot
Payloads == Texts \cup {Reply}
Acks == {"accepted", "rejected", "duplicate", "conflict"}

Init ==
    /\ draft = None
    /\ actions = [s \in Slots |-> NoAction]
    /\ call = NoCall
    /\ admitted = [k \in 0 .. MaxKeys |-> [sig |-> None, status |-> None]]
    /\ given = [p \in Payloads |-> 0]
    /\ attention = "open" /\ inbox = TRUE /\ keys = 0
    /\ meant = [p \in Payloads |-> 0] /\ unsure = {}

(***************************************************************************)
(* The repository.                                                         *)
(***************************************************************************)
\* UpdateDraft, on the main thread at any moment.
EditDraft(t) ==
    /\ draft # t /\ draft' = t
    /\ UNCHANGED <<actions, call, admitted, given, attention, inbox, keys, meant, unsure>>

Payload(s) == IF s = "prompt" THEN draft ELSE Reply

\* PendingActionTracker.begin, where it does not return null.
BeginAction(s, sig) ==
    IF actions[s].sig = sig
    THEN [actions[s] EXCEPT !.state = "InFlight"]
    ELSE [sig |-> sig, key |-> keys + 1, state |-> "InFlight"]

\* submitPrompt or respondAttention on the lane, up to the blocking call.
Tap(s) ==
    LET sig == Payload(s)
        next == BeginAction(s, sig)
    IN
    /\ call.pc = "idle" /\ sig # None
    /\ s = "attention" => inbox
    /\ actions[s].state # "Resolved"
    /\ next.key <= MaxKeys
    /\ keys' = IF next.key > keys THEN next.key ELSE keys
    /\ actions' = [actions EXCEPT ![s] = next]
    /\ call' = [NoCall EXCEPT !.slot = s, !.sig = sig, !.key = next.key,
                              !.pc = IF s = "prompt" THEN "upload" ELSE "submit"]
    /\ meant' = IF sig \in unsure THEN meant ELSE [meant EXCEPT ![sig] = @ + 1]
    /\ UNCHANGED <<draft, admitted, given, attention, inbox, unsure>>

\* isDefiniteSuccess
IsDefiniteSuccess(ack) == ack \in {"accepted", "duplicate"}

\* Mutant: an attempt without an answer forgets its key.
CompleteForgets(s, attempt) ==
    IF attempt = "success" /\ s = "attention"
    THEN [actions[s] EXCEPT !.state = "Resolved"]
    ELSE NoAction

\* PendingActionTracker.complete; only attention keeps a definite success.
Complete(s, attempt) ==
    CASE attempt = "success" ->
           IF s = "attention" THEN [actions[s] EXCEPT !.state = "Resolved"] ELSE NoAction
      [] attempt = "rejection" -> NoAction
      [] attempt = "uncertain" -> [actions[s] EXCEPT !.state = "Retriable"]

\* onDefiniteSuccess clears the draft if it is still the text that was sent.
ClearDraft(s, sig) == IF s = "prompt" /\ draft = sig THEN None ELSE draft

\* The end of performCommand: the tracker, then the draft.
Attempt(attempt) ==
    /\ actions' = [actions EXCEPT ![call.slot] = Complete(call.slot, attempt)]
    /\ draft' = IF attempt = "success" THEN ClearDraft(call.slot, call.sig) ELSE draft
    /\ unsure' = IF attempt = "uncertain" THEN unsure \cup {call.sig} ELSE unsure \ {call.sig}
    /\ call' = NoCall

\* upload_sensitive_text: stored, refused, or the connection ends.
Upload ==
    /\ call.pc = "upload"
    /\ \/ /\ call' = [call EXCEPT !.pc = "submit"]
          /\ UNCHANGED <<actions, draft, unsure>>
       \/ Refusing /\ Attempt("rejection")
       \/ Lossy /\ Attempt("uncertain")
    /\ UNCHANGED <<admitted, given, attention, inbox, keys, meant>>

\* The acknowledgement reaches performCommand.
AckArrives ==
    /\ call.pc = "acked"
    /\ Attempt(IF IsDefiniteSuccess(call.ack) THEN "success" ELSE "rejection")
    /\ UNCHANGED <<admitted, given, attention, inbox, keys, meant>>

\* Request or acknowledgement is lost: wait_for fails or times out.
AckLost ==
    /\ Lossy /\ call.pc \in {"submit", "acked"}
    /\ Attempt("uncertain")
    /\ UNCHANGED <<admitted, given, attention, inbox, keys, meant>>

\* The AttentionInbox projection; retainResolvedAttention.
InboxArrives ==
    /\ call.pc = "idle"
    /\ inbox' = (attention = "open")
    /\ actions' = [s \in Slots |->
           IF s = "attention" /\ attention # "open" /\ actions[s].state = "Resolved"
           THEN NoAction ELSE actions[s]]
    /\ UNCHANGED <<draft, call, admitted, given, attention, keys, meant, unsure>>

(***************************************************************************)
(* The host.                                                               *)
(***************************************************************************)
\* device_outbox.existing
Known(k) == admitted[k].sig # None

Unfinished(sig) == \E k \in 0 .. MaxKeys : admitted[k] = [sig |-> sig, status |-> "ready"]

\* preview_device_admission
MayAdmit(sig) ==
    sig = Reply => attention = "open" /\ ~Unfinished(Reply)

\* admit_device_command
Admit ==
    LET k == call.key IN
    /\ call.pc = "submit"
    /\ IF Known(k)
       THEN /\ call' = [call EXCEPT !.pc = "acked", !.ack =
                          IF admitted[k].sig = call.sig THEN "duplicate" ELSE "conflict"]
            /\ UNCHANGED admitted
       ELSE \E ok \in BOOLEAN :
            /\ ok => MayAdmit(call.sig)
            /\ ~ok => Refusing \/ ~MayAdmit(call.sig)
            /\ admitted' = [admitted EXCEPT ![k] =
                              [sig |-> call.sig, status |-> IF ok THEN "ready" ELSE "refused"]]
            /\ call' = [call EXCEPT !.pc = "acked", !.ack = IF ok THEN "accepted" ELSE "rejected"]
    /\ UNCHANGED <<draft, actions, given, attention, inbox, keys, meant, unsure>>

\* Another paired device answers the same item.
OtherDeviceReplies ==
    /\ "attention" \in Slots /\ ~Known(0)
    /\ admitted' = [admitted EXCEPT ![0] =
          [sig |-> Reply, status |-> IF MayAdmit(Reply) THEN "ready" ELSE "refused"]]
    /\ meant' = [meant EXCEPT ![Reply] = @ + 1]
    /\ UNCHANGED <<draft, actions, call, given, attention, inbox, keys, unsure>>

\* The adapter is given the command; the outcome completes the record.
Dispatch(k) ==
    LET sig == admitted[k].sig IN
    /\ admitted[k].status = "ready"
    /\ \/ /\ given' = [given EXCEPT ![sig] = @ + 1]
          /\ admitted' = [admitted EXCEPT ![k].status = "done"]
          /\ attention' = IF sig = Reply THEN "closed" ELSE attention
       \/ /\ Failing
          /\ admitted' = [admitted EXCEPT ![k].status = "failed"]
          /\ UNCHANGED <<given, attention>>
    /\ UNCHANGED <<draft, actions, call, inbox, keys, meant, unsure>>

\* The provider's own surface answers the item.
AnsweredElsewhere ==
    /\ attention = "open" /\ attention' = "closed"
    /\ UNCHANGED <<draft, actions, call, admitted, given, inbox, keys, meant, unsure>>

Next ==
    \/ \E t \in Texts \cup {None} : EditDraft(t)
    \/ \E s \in Slots : Tap(s)
    \/ Upload \/ AckArrives \/ AckLost \/ InboxArrives \/ Admit
    \/ \E k \in 0 .. MaxKeys : Dispatch(k)
    \/ OtherDeviceReplies \/ AnsweredElsewhere

Spec == Init /\ [][Next]_vars

(***************************************************************************)
(* Properties                                                              *)
(***************************************************************************)
\* Slots and calls fit together: a call belongs to the slot that is in
\* flight, with the slot's key, and no two slots share a key.
TypeOK ==
    /\ draft \in Texts \cup {None} /\ keys \in 0 .. MaxKeys
    /\ \A s \in Slots :
          /\ actions[s].state \in {None, "InFlight", "Retriable", "Resolved"}
          /\ actions[s].state = "InFlight" <=> call.slot = s
          /\ call.slot = s => actions[s].key = call.key /\ actions[s].sig = call.sig
    /\ \A s, r \in Slots : (s # r /\ actions[s].key # 0) => actions[s].key # actions[r].key
    /\ call.ack \in Acks \cup {None}

\* "Unknown outcome; a retry keeps the same idempotency key": a payload
\* reaches the provider no more often than the user meant to send it, however
\* many answers were lost (performCommand, PendingActionTracker).
DeliveredAsMeant == \A p \in Payloads : given[p] <= meant[p]

\* The draft is cleared only after the host has taken exactly that text, and
\* what the user typed meanwhile stays ("rejected by the broker; the input is
\* kept", ackMessage).
DraftKeptUntilTaken ==
    [][(draft' = None /\ draft # None /\ call' # call)
       => \E k \in 1 .. MaxKeys :
            admitted[k].sig = draft /\ admitted[k].status # "refused"]_vars

\* Two phones answer the same item, with retries: the provider is given one
\* answer (PendingActionTracker together with preview_device_admission).
AnsweredOnce == given[Reply] <= 1

\* "The answer was delivered, waiting for the list": a resolved slot means
\* that the provider has the answer, or the item was closed otherwise.
ResolvedIsAnswered ==
    \A s \in Slots : actions[s].state = "Resolved" => attention = "closed"
=============================================================================
