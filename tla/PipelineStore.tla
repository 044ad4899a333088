--------------------------- MODULE PipelineStore ---------------------------
(***************************************************************************)
(* What churro-ctl promises of a pipeline's resource, and what its caller  *)
(* may conclude: each call takes effect at once, at one moment between the *)
(* request and the answer, or not at all.  An answer "ok" means that it    *)
(* did, and an error that it did not, but for the errors of what follows   *)
(* the write (triggerExtractSourceUpdate, deleteDataSourcePods) and of an  *)
(* answer that is lost: after those the caller is "unsure".                *)
(*                                                                         *)
(* The store is the content of the resource and the number of its making,  *)
(* uid 0 when there is none.                                               *)
(***************************************************************************)
EXTENDS PipelineResource

CONSTANTS Slots,                \* where requests run
          NoCall                \* the call of none
VARIABLES store, ask
vars == <<store, ask>>

Statuses == {"idle", "pending", "applied", "ok", "refused", "unsure"}
Resting == {"idle", "ok", "refused", "unsure"}
Empty(c) == c.sources = {} /\ c.rules = {} /\ c.extensions = {} /\ c.functions = {}

Idle == [call |-> NoCall, status |-> "idle"]

Init == ask = [s \in Slots |-> Idle]

Submit(s) ==
    /\ ask[s].status \in Resting
    /\ ask'[s].status = "pending" /\ ask'[s].call.op \in Edits
    /\ ask' = [ask EXCEPT ![s] = ask'[s]]
    /\ UNCHANGED store

\* A caller that is no more hears no answer.
Answered(s, to) == IF to = "idle" THEN Idle ELSE [ask[s] EXCEPT !.status = to]

Apply(s) ==
    /\ ask[s].status = "pending"
    /\ store.uid # 0 /\ ~Refuses(store, ask[s].call)
    /\ store' = Effect(store, ask[s].call)
    /\ \E to \in {"applied", "ok", "unsure", "idle"} :
          ask' = [ask EXCEPT ![s] = Answered(s, to)]

\* Requests end, several at once when a process does; an answer is forgotten.
Ends(from) ==
    CASE from = "pending" -> {"pending", "refused", "idle"}
      [] from = "applied" -> {"applied", "ok", "unsure", "idle"}
      [] OTHER -> {from, "idle"}

Settle ==
    /\ \E to \in [Slots -> Statuses] :
          /\ \A s \in Slots : to[s] \in Ends(ask[s].status)
          /\ ask' = [s \in Slots |-> Answered(s, to[s])]
    /\ UNCHANGED store

\* The resource is deleted, or made again.
Remake ==
    /\ store'.uid = 0 \/ store'.uid > store.uid
    /\ Empty(store')
    /\ UNCHANGED ask

Next ==
    \/ \E s \in Slots : Submit(s) \/ Apply(s)
    \/ Settle
    \/ Remake

Spec == Init /\ [][Next]_vars
=============================================================================
